---------------------------- MODULE Spec2Model ----------------------------
(***************************************************************************)
(* A model of the Outfitted API gateway (Express + Airtable + OpenAI).     *)
(*                                                                         *)
(* The record store holds three tables (closet, outfits, orders).  Every   *)
(* request is a task that runs its handler up to the next `await`; each    *)
(* action below is one such segment: the completion of the awaited call    *)
(* together with the synchronous code that follows it.                     *)
(*                                                                         *)
(* Strings that the code escapes, trims, lower-cases or interpolates into  *)
(* a filterByFormula are sequences of one-character strings, so that the   *)
(* conversions are computed and not assumed.                               *)
(***************************************************************************)
EXTENDS Naturals, Sequences, FiniteSets, TLC

VARIABLES
    closet,     \* table "Clothing Items": sequence of records, creation order
    outfits,    \* table "Outfits"
    orders,     \* table "Orders"
    nextId,     \* the store's record-id counter
    env,        \* the process environment, fixed at boot
    task        \* task[t]: the request task t is running, its locals, its response

vars == <<closet, outfits, orders, nextId, env, task>>

-----------------------------------------------------------------------------
(* Bounds of the model *)

MaxKeyLen == 2      \* longest idempotencyKey tried
MaxQLen == 2        \* longest search text q tried
MaxTextLen == 3     \* most pieces of an AI text, its code fence apart

\* the requests in flight at once
Tasks == {"t1", "t2"}

-----------------------------------------------------------------------------
(* Characters and strings *)

SQ == "'"
DQ == "\""
BS == "\\"

\* a string is a sequence of characters
StrUpTo(alphabet, n) == UNION { [1..k -> alphabet] : k \in 0..n }

\* a field or header that was not sent, and JSON null
Absent == <<"<absent>">>
Null == <<"<null>">>

SP == " "

RECURSIVE TrimLeft(_)
TrimLeft(s) == IF s # <<>> /\ Head(s) = SP THEN TrimLeft(Tail(s)) ELSE s

RECURSIVE TrimRight(_)
TrimRight(s) ==
    IF s # <<>> /\ s[Len(s)] = SP THEN TrimRight(SubSeq(s, 1, Len(s) - 1)) ELSE s

\* String.prototype.trim
Trim(s) == TrimRight(TrimLeft(s))

RECURSIVE ReplaceQuote(_)
ReplaceQuote(s) ==
    IF s = <<>> THEN <<>>
    ELSE (IF Head(s) = SQ THEN <<BS, SQ>> ELSE <<Head(s)>>) \o ReplaceQuote(Tail(s))

\* const esc = (s = '') => String(s).replace(/'/g, "\\'")
esc(s) == ReplaceQuote(s)

\* what the store's formula language reads from a formula text: the string
\* literals ('...' or "...", where \' \" and \\ stand for the second character)
\* and the text outside them, each literal replaced by the mark LIT.
\* ok is FALSE when a literal is not terminated or a backslash stands outside
\* a literal: the store rejects the formula.
LIT == "<lit>"

\* the first position from i on that holds a character of set, Len(f) + 1
\* when there is none
NextIn(f, i, set) ==
    IF \E j \in i..Len(f) : f[j] \in set
    THEN CHOOSE j \in i..Len(f) : f[j] \in set /\ \A k \in i..(j - 1) : f[k] \notin set
    ELSE Len(f) + 1

\* one step reads the text up to the next quote or backslash
RECURSIVE LexFrom(_, _, _, _, _, _)
LexFrom(f, i, mode, cur, lits, skel) ==
    IF i > Len(f)
    THEN [ok |-> mode = "code", lits |-> lits, skel |-> skel]
    ELSE IF mode = "code"
         THEN LET j == NextIn(f, i, {SQ, DQ, BS})
                  sk == skel \o SubSeq(f, i, j - 1)
              IN  IF j > Len(f) THEN [ok |-> TRUE, lits |-> lits, skel |-> sk]
                  ELSE IF f[j] = SQ THEN LexFrom(f, j + 1, "sq", <<>>, lits, sk)
                  ELSE IF f[j] = DQ THEN LexFrom(f, j + 1, "dq", <<>>, lits, sk)
                  ELSE [ok |-> FALSE, lits |-> lits, skel |-> sk]
         ELSE LET j == NextIn(f, i, {BS, IF mode = "sq" THEN SQ ELSE DQ})
                  cu == cur \o SubSeq(f, i, j - 1)
              IN  IF j > Len(f) \/ (f[j] = BS /\ j + 1 > Len(f))
                  THEN [ok |-> FALSE, lits |-> lits, skel |-> skel]
                  ELSE IF f[j] = BS
                       THEN LexFrom(f, j + 2, mode,
                                    cu \o (IF f[j + 1] \in {SQ, DQ, BS}
                                           THEN <<f[j + 1]>> ELSE <<BS, f[j + 1]>>),
                                    lits, skel)
                       ELSE LexFrom(f, j + 1, "code", <<>>, Append(lits, cu),
                                    Append(skel, LIT))

Lex(f) == LexFrom(f, 1, "code", <<>>, <<>>, <<>>)

-----------------------------------------------------------------------------
(* Record store *)

Digits == <<"1", "2", "3", "4", "5", "6", "7", "8", "9">>

\* the id the store assigns to its n-th new record
RecId(prefix, n) == <<prefix, Digits[n]>>

Ids(table) == { table[i].id : i \in 1..Len(table) }

Has(table, id) == id \in Ids(table)

\* at most the first n records of a result (maxRecords: n)
FirstN(s, n) == IF Len(s) <= n THEN s ELSE SubSeq(s, 1, n)

Rec(table, id) == table[CHOOSE i \in 1..Len(table) : table[i].id = id]

-----------------------------------------------------------------------------
(* Requests, responses, errors *)

\* CLOSET_PHOTO_AS_ATTACHMENT === 'true', SKIP_OPENAI === 'true'
Envs == [photoAttachment : BOOLEAN, skipOpenAI : BOOLEAN]

DefaultEnv == [photoAttachment |-> TRUE, skipOpenAI |-> FALSE]

API_KEY == "good"

\* x-api-key as received: absent, a wrong key, the configured key
KeyHeaders == {"absent", "bad", "good"}

NoBody == [none |-> TRUE]

\* responses counts the responses sent for the task's request.
\* hdrReqId is the x-request-id header the task's request carries; requestId
\* is error.requestId of the response body, Absent when the body has none
Idle == [pc |-> "idle", app |-> "part_002", route |-> "", hdrKey |-> "absent", uid |-> <<>>,
         hdrReqId |-> Absent,
         body |-> NoBody, loc |-> NoBody,
         status |-> 0, code |-> "", message |-> "", data |-> NoBody, requestId |-> Absent,
         responses |-> 0,
         storeCalls |-> 0, aiCalls |-> 0, created |-> {}, wrote |-> {},
         xfail |-> FALSE,
         after |-> {}]

Done(t) == task[t].pc = "done"

DoneTasks == { t \in Tasks : Done(t) }

\* res.status(s).json({ error: { code, message } }) or res.status(s).json({ data })
Respond(r, s, c, m, d) ==
    [r EXCEPT !.pc = "done", !.status = s, !.code = c, !.message = m, !.data = d,
              !.responses = @ + 1]

\* errors as the handlers see them: status 0 and code "" stand for undefined
ZodError == [message |-> "ZodError", status |-> 0, code |-> ""]
AirtableError == [message |-> "AirtableError", status |-> 0, code |-> ""]

\* the id uuidv4() returns
Uuid == <<"<uuid>">>

\* genReqId: (req) => req.headers['x-request-id'] || uuidv4()
genReqId(hdr) == IF hdr \in {Absent, <<>>} THEN Uuid ELSE hdr

ErrorHandler_NoResponse(r, err) == [r EXCEPT !.pc = "hung"]

\* app.use((err, req, res, next) => ...): status = err.status || 500,
\* code = err.code || 'INTERNAL_ERROR', message = err.message || 'Unexpected
\* server error', requestId: req.id
ErrorHandler(r, err) ==
    [Respond(r,
             IF err.status = 0 THEN 500 ELSE err.status,
             IF err.code = "" THEN "INTERNAL_ERROR" ELSE err.code,
             IF err.message = "" THEN "Unexpected server error" ELSE err.message,
             NoBody)
     EXCEPT !.requestId = genReqId(r.hdrReqId)]

\* const getUid = (req) => String(req.header('x-user-id') || '').trim()
getUid(hdr) == Trim(IF hdr = Absent THEN <<>> ELSE hdr)

\* function requireApiKey: passes iff req.header('x-api-key') === API_KEY
requireApiKey(hk) == hk = API_KEY

Unauthorized(r) == Respond(r, 401, "UNAUTHORIZED", "Invalid API key", NoBody)

\* a task takes up a request: the route, the headers, the body
Arrive(t, route, hk, uid, body) ==
    [Idle EXCEPT !.route = route, !.hdrKey = hk, !.uid = uid, !.body = body,
                 !.hdrReqId = task[t].hdrReqId,
                 !.after = DoneTasks]

-----------------------------------------------------------------------------
(* POST /api/orders *)

Fulfillments == {"delivery", "pickup", "stylist"}

\* CreateOrderSchema; an absent or empty string is <<>>, an absent enum or
\* note is "absent", "short" and "long" are notes of at most and of more than
\* 2000 characters
CreateOrderSchema(b) ==
    /\ Len(b.userId) >= 1
    /\ Len(b.outfitId) >= 1
    /\ b.fulfillment \in Fulfillments \cup {"absent"}
    /\ b.note \in {"absent", "", "short"}
    /\ Len(b.idempotencyKey) >= 1

\* the parsed body: .default('delivery'), .optional().default('')
ParsedOrder(b) ==
    [b EXCEPT !.fulfillment = IF @ = "absent" THEN "delivery" ELSE @,
              !.note = IF @ = "absent" THEN "" ELSE @]

OrderKeyTemplate == <<"{Idempotency Key} = ", LIT>>

\* `{Idempotency Key} = '${safeKey}'` with safeKey = key.replace(/'/g, "\\'")
OrderKeyFormula(key) == <<"{Idempotency Key} = ", SQ>> \o ReplaceQuote(key) \o <<SQ>>

\* tbOrders.select({ maxRecords: 1, filterByFormula }).firstPage():
\* ok is FALSE when the store rejects the formula
SelectOrdersByKey(key) ==
    LET lx == Lex(OrderKeyFormula(key))
        Match(o) == o.key = lx.lits[1]
    IN  IF lx.ok /\ lx.skel = OrderKeyTemplate
        THEN [ok |-> TRUE, page |-> FirstN(SelectSeq(orders, Match), 1)]
        ELSE [ok |-> FALSE, page |-> <<>>]

\* the order's fields as the handler builds them
OrderFields(id, b) ==
    [id |-> id, userId |-> b.userId, outfit |-> b.outfitId, status |-> "pending",
     fulfillment |-> b.fulfillment, note |-> b.note, key |-> b.idempotencyKey]

\* what the store held when the task's call reached it (for the properties
\* only: the handler never reads it)
OrderSeen(loc, b) ==
    [keyFree |-> IF "keyFree" \in DOMAIN loc THEN loc.keyFree
                 ELSE \A i \in 1..Len(orders) : orders[i].key # b.idempotencyKey,
     outfitExists |-> Has(outfits, b.outfitId)]

\* requireApiKey, CreateOrderSchema.parse(req.body), then the lookup is issued
OrdersBegin(t, hk, b) ==
    /\ task[t].pc = "idle"
    /\ LET r == Arrive(t, "POST /api/orders", hk, <<>>, b) IN
       task' = [task EXCEPT ![t] =
           IF ~requireApiKey(hk) THEN Unauthorized(r)
           ELSE IF ~CreateOrderSchema(b) THEN ErrorHandler(r, ZodError)
           ELSE [r EXCEPT !.pc = "orders_select", !.body = ParsedOrder(b)]]
    /\ UNCHANGED <<closet, outfits, orders, nextId, env>>

\* await tbOrders.select(...).firstPage(); a hit answers 200 with the record
OrdersSelect(t) ==
    /\ task[t].pc = "orders_select"
    /\ \E fail \in BOOLEAN :
       LET r == [task[t] EXCEPT !.storeCalls = @ + 1, !.xfail = @ \/ fail,
                                !.loc = OrderSeen(@, task[t].body)]
           res == SelectOrdersByKey(r.body.idempotencyKey)
       IN  task' = [task EXCEPT ![t] =
               IF fail \/ ~res.ok THEN ErrorHandler(r, AirtableError)
               ELSE IF Len(res.page) > 0
                    THEN Respond(r, 200, "", "", res.page[1])
                    ELSE [r EXCEPT !.pc = "orders_find"]]
    /\ UNCHANGED <<closet, outfits, orders, nextId, env>>

\* const outfit = await tbOutfits.find(outfitId).catch(() => null)
OrdersFind(t) ==
    /\ task[t].pc = "orders_find"
    /\ \E fail \in BOOLEAN :
       LET r == [task[t] EXCEPT !.storeCalls = @ + 1, !.xfail = @ \/ fail,
                                !.loc = OrderSeen(@, task[t].body)]
           outfit == ~fail /\ Has(outfits, r.body.outfitId)
       IN  task' = [task EXCEPT ![t] =
               IF ~outfit
               THEN Respond(r, 404, "OUTFIT_NOT_FOUND", "Invalid outfitId", NoBody)
               ELSE [r EXCEPT !.pc = "orders_create"]]
    /\ UNCHANGED <<closet, outfits, orders, nextId, env>>

\* const recs = await tbOrders.create([{ fields }]); 201 with the new record
OrdersCreate(t) ==
    /\ task[t].pc = "orders_create"
    /\ \E fail \in BOOLEAN :
       LET r == [task[t] EXCEPT !.storeCalls = @ + 1, !.xfail = @ \/ fail]
           rec == OrderFields(RecId("r", nextId), r.body)
       IN  IF fail
           THEN /\ task' = [task EXCEPT ![t] = ErrorHandler(r, AirtableError)]
                /\ UNCHANGED <<orders, nextId>>
           ELSE /\ orders' = Append(orders, rec)
                /\ nextId' = nextId + 1
                /\ task' = [task EXCEPT ![t] =
                       Respond([r EXCEPT !.created = @ \cup {rec.id}], 201, "", "", rec)]
    /\ UNCHANGED <<closet, outfits, env>>

-----------------------------------------------------------------------------
(* Closet items: create, update, delete;  outfits: delete *)

\* z.string().url(): the texts tried as URLs
Urls == {<<"u">>, <<"v">>}

IsUrl(s) == s \in Urls

\* CreateClosetItemSchema
CreateClosetItemSchema(b) ==
    /\ b.name # Absent /\ Len(b.name) >= 1
    /\ b.category # Absent /\ Len(b.category) >= 1
    /\ b.imageUrl = Absent \/ IsUrl(b.imageUrl)

\* UpdateClosetItemSchema: every field optional, color, brand and imageUrl
\* nullable
UpdateClosetItemSchema(b) ==
    /\ b.name = Absent \/ (b.name # Null /\ Len(b.name) >= 1)
    /\ b.category = Absent \/ (b.category # Null /\ Len(b.category) >= 1)
    /\ b.imageUrl \in {Absent, Null} \/ IsUrl(b.imageUrl)

\* the Photo field as written: [{ url }] for an attachment field, [] to clear
\* it, else the text
PhotoValue(url) ==
    IF env.photoAttachment
    THEN (IF url = <<>> THEN <<"att">> ELSE <<"att", url>>)
    ELSE <<"str", url>>

NoPhoto == <<>>

\* the fields POST /api/closet writes
NewClosetFields(id, uid, b) ==
    [id |-> id, name |-> b.name, category |-> b.category,
     color |-> IF b.color = Absent THEN <<>> ELSE b.color,
     brand |-> IF b.brand = Absent THEN <<>> ELSE b.brand,
     photo |-> IF b.imageUrl \notin {Absent, <<>>} THEN PhotoValue(b.imageUrl) ELSE NoPhoto,
     owner |-> uid]

Given(v) == v \notin {Absent, Null}

\* the record after tbCloset.update with the fields PUT /api/closet/:id builds
PatchedCloset(rec, b) ==
    [rec EXCEPT
        !.name = IF Given(b.name) THEN b.name ELSE @,
        !.category = IF Given(b.category) THEN b.category ELSE @,
        !.color = IF Given(b.color) THEN b.color ELSE @,
        !.brand = IF Given(b.brand) THEN b.brand ELSE @,
        !.photo = IF b.imageUrl = Absent THEN @
                  ELSE PhotoValue(IF b.imageUrl = Null THEN <<>> ELSE b.imageUrl)]

OwnerMismatch_BlankIsOpen(oid, uid) == oid # <<>> /\ oid # uid

\* (current.fields[USER_ID_FIELD] || '') !== uid
OwnerMismatch(oid, uid) == oid # uid

Forbidden(r, m) == Respond(r, 403, "FORBIDDEN", m, NoBody)

\* a table with the record of this id replaced, or removed
Replaced(table, id, rec) ==
    [i \in 1..Len(table) |-> IF table[i].id = id THEN rec ELSE table[i]]

Removed(table, id) == LET Keep(x) == x.id # id IN SelectSeq(table, Keep)

\* an update or destroy the task issued, with the owner the record had then
Wrote(r, table, id, op, oid) ==
    [r EXCEPT !.wrote = @ \cup {[table |-> table, id |-> id, op |-> op, owner |-> oid]}]

\* POST /api/closet: requireApiKey, getUid, CreateClosetItemSchema.parse, then
\* the create is issued
ClosetCreateBegin(t, hk, hdr, b) ==
    /\ task[t].pc = "idle"
    /\ LET r == Arrive(t, "POST /api/closet", hk, getUid(hdr), b) IN
       task' = [task EXCEPT ![t] =
           IF ~requireApiKey(hk) THEN Unauthorized(r)
           ELSE IF ~CreateClosetItemSchema(b) THEN ErrorHandler(r, ZodError)
           ELSE [r EXCEPT !.pc = "closet_create"]]
    /\ UNCHANGED <<closet, outfits, orders, nextId, env>>

\* await tbCloset.create([{ fields }], { typecast: true }); 201 echoes the body
ClosetCreate(t) ==
    /\ task[t].pc = "closet_create"
    /\ \E fail \in BOOLEAN :
       LET r == [task[t] EXCEPT !.storeCalls = @ + 1, !.xfail = @ \/ fail]
           rec == NewClosetFields(RecId("c", nextId), r.uid, r.body)
       IN  IF fail
           THEN /\ task' = [task EXCEPT ![t] = ErrorHandler(r, AirtableError)]
                /\ UNCHANGED <<closet, nextId>>
           ELSE /\ closet' = Append(closet, rec)
                /\ nextId' = nextId + 1
                /\ task' = [task EXCEPT ![t] =
                       Respond([r EXCEPT !.created = @ \cup {rec.id}], 201, "", "",
                               [id |-> rec.id, name |-> r.body.name,
                                imageUrl |-> IF r.body.imageUrl \in {Absent, <<>>}
                                             THEN <<>> ELSE r.body.imageUrl])]
    /\ UNCHANGED <<outfits, orders, env>>

\* PUT /api/closet/:id and DELETE /api/closet/:id, DELETE /api/outfits/:id:
\* requireApiKey, getUid, then the find is issued
OwnedBegin(t, route, hk, hdr, id, b) ==
    /\ task[t].pc = "idle"
    /\ LET r == Arrive(t, route, hk, getUid(hdr), b) IN
       task' = [task EXCEPT ![t] =
           IF ~requireApiKey(hk) THEN Unauthorized(r)
           ELSE [r EXCEPT !.pc = "find", !.loc = [id |-> id]]]
    /\ UNCHANGED <<closet, outfits, orders, nextId, env>>

\* PUT /api/closet/:id: await tbCloset.find(id), the ownership check, then
\* UpdateClosetItemSchema.parse(req.body) and the update is issued
ClosetPutFind(t) ==
    /\ task[t].pc = "find" /\ task[t].route = "PUT /api/closet/:id"
    /\ \E fail \in BOOLEAN :
       LET r == [task[t] EXCEPT !.storeCalls = @ + 1, !.xfail = @ \/ fail]
           id == r.loc.id
       IN  task' = [task EXCEPT ![t] =
               IF fail \/ ~Has(closet, id) THEN ErrorHandler(r, AirtableError)
               ELSE LET seen == [r EXCEPT !.loc = [id |-> id, owner |-> Rec(closet, id).owner]]
                    IN  IF OwnerMismatch(Rec(closet, id).owner, r.uid)
                        THEN Forbidden(seen, "Not your item")
                        ELSE IF ~UpdateClosetItemSchema(r.body)
                             THEN ErrorHandler(seen, ZodError)
                             ELSE [seen EXCEPT !.pc = "closet_update"]]
    /\ UNCHANGED <<closet, outfits, orders, nextId, env>>

\* await tbCloset.update([{ id, fields }], { typecast: true }); 200
ClosetPutUpdate(t) ==
    /\ task[t].pc = "closet_update"
    /\ \E fail \in BOOLEAN :
       LET r == [task[t] EXCEPT !.storeCalls = @ + 1, !.xfail = @ \/ fail]
           id == r.loc.id
       IN  IF fail \/ ~Has(closet, id)
           THEN /\ task' = [task EXCEPT ![t] = ErrorHandler(r, AirtableError)]
                /\ UNCHANGED closet
           ELSE LET rec == PatchedCloset(Rec(closet, id), r.body) IN
                /\ closet' = Replaced(closet, id, rec)
                /\ task' = [task EXCEPT ![t] =
                       Respond(Wrote(r, "closet", id, "update", Rec(closet, id).owner),
                               200, "", "", [id |-> id, name |-> rec.name])]
    /\ UNCHANGED <<outfits, orders, nextId, env>>

\* DELETE /api/closet/:id: await tbCloset.find(id), the ownership check, then
\* the destroy is issued
ClosetDeleteFind(t) ==
    /\ task[t].pc = "find" /\ task[t].route = "DELETE /api/closet/:id"
    /\ \E fail \in BOOLEAN :
       LET r == [task[t] EXCEPT !.storeCalls = @ + 1, !.xfail = @ \/ fail]
           id == r.loc.id
       IN  task' = [task EXCEPT ![t] =
               IF fail \/ ~Has(closet, id) THEN ErrorHandler(r, AirtableError)
               ELSE LET seen == [r EXCEPT !.loc = [id |-> id, owner |-> Rec(closet, id).owner]]
                    IN  IF OwnerMismatch(Rec(closet, id).owner, r.uid)
                        THEN Forbidden(seen, "Not your item")
                        ELSE [seen EXCEPT !.pc = "closet_destroy"]]
    /\ UNCHANGED <<closet, outfits, orders, nextId, env>>

\* await tbCloset.destroy(id); 204
ClosetDeleteDestroy(t) ==
    /\ task[t].pc = "closet_destroy"
    /\ \E fail \in BOOLEAN :
       LET r == [task[t] EXCEPT !.storeCalls = @ + 1, !.xfail = @ \/ fail]
           id == r.loc.id
       IN  IF fail \/ ~Has(closet, id)
           THEN /\ task' = [task EXCEPT ![t] = ErrorHandler(r, AirtableError)]
                /\ UNCHANGED closet
           ELSE /\ closet' = Removed(closet, id)
                /\ task' = [task EXCEPT ![t] =
                       Respond(Wrote(r, "closet", id, "destroy", Rec(closet, id).owner),
                               204, "", "", NoBody)]
    /\ UNCHANGED <<outfits, orders, nextId, env>>

\* DELETE /api/outfits/:id: await tbOutfits.find(id), the ownership check,
\* then the destroy is issued
OutfitDeleteFind(t) ==
    /\ task[t].pc = "find" /\ task[t].route = "DELETE /api/outfits/:id"
    /\ \E fail \in BOOLEAN :
       LET r == [task[t] EXCEPT !.storeCalls = @ + 1, !.xfail = @ \/ fail]
           id == r.loc.id
       IN  task' = [task EXCEPT ![t] =
               IF fail \/ ~Has(outfits, id) THEN ErrorHandler(r, AirtableError)
               ELSE LET seen == [r EXCEPT !.loc = [id |-> id, owner |-> Rec(outfits, id).owner]]
                    IN  IF OwnerMismatch(Rec(outfits, id).owner, r.uid)
                        THEN Forbidden(seen, "Not your look")
                        ELSE [seen EXCEPT !.pc = "outfit_destroy"]]
    /\ UNCHANGED <<closet, outfits, orders, nextId, env>>

\* await tbOutfits.destroy(id); 204
OutfitDeleteDestroy(t) ==
    /\ task[t].pc = "outfit_destroy"
    /\ \E fail \in BOOLEAN :
       LET r == [task[t] EXCEPT !.storeCalls = @ + 1, !.xfail = @ \/ fail]
           id == r.loc.id
       IN  IF fail \/ ~Has(outfits, id)
           THEN /\ task' = [task EXCEPT ![t] = ErrorHandler(r, AirtableError)]
                /\ UNCHANGED outfits
           ELSE /\ outfits' = Removed(outfits, id)
                /\ task' = [task EXCEPT ![t] =
                       Respond(Wrote(r, "outfits", id, "destroy", Rec(outfits, id).owner),
                               204, "", "", NoBody)]
    /\ UNCHANGED <<closet, orders, nextId, env>>

-----------------------------------------------------------------------------
(* The orders specification: concurrent POST /api/orders over a store that  *)
(* holds one outfit                                                        *)

UserA == <<"A">>
UserB == <<"B">>

Outfit1 == [id |-> RecId("o", 1), owner |-> UserA, items |-> <<>>, title |-> "Look"]

OrderKeys == StrUpTo({"k", SQ, BS}, MaxKeyLen)

OrderBodies ==
    [userId : {UserA, UserB}, outfitId : {RecId("o", 1), RecId("o", 9)},
     fulfillment : {"absent"}, note : {"absent"}, idempotencyKey : OrderKeys]

InitOrders ==
    /\ closet = <<>>
    /\ outfits = <<Outfit1>>
    /\ orders = <<>>
    /\ nextId = 2
    /\ env = DefaultEnv
    /\ task = [t \in Tasks |-> Idle]

NextOrders ==
    \E t \in Tasks :
        \/ \E hk \in {"bad", "good"}, b \in OrderBodies : OrdersBegin(t, hk, b)
        \/ OrdersSelect(t)
        \/ OrdersFind(t)
        \/ OrdersCreate(t)

SpecOrders == InitOrders /\ [][NextOrders]_vars


-----------------------------------------------------------------------------
(* Properties of POST /api/orders *)

IsOrders(t) == task[t].route = "POST /api/orders"

\* the request passed requireApiKey and CreateOrderSchema and no call of it
\* failed in transport
OrderServed(t) ==
    /\ Done(t) /\ IsOrders(t)
    /\ task[t].storeCalls >= 1
    /\ ~task[t].xfail

\* C1: in every reachable state of the record store, under any interleaving of
\* POST /api/orders requests, at most one Order record exists per
\* idempotencyKey value.
C1_OneOrderPerKey ==
    \A i, j \in 1..Len(orders) : orders[i].key = orders[j].key => i = j

\* C2: if a POST /api/orders with idempotencyKey k has completed with 201 and
\* Order id X, then any later POST /api/orders with the same k, whatever its
\* other body fields, responds 200 with Order id X and creates nothing.
C2_ReplayReturnsFirstOrder ==
    \A t1, t2 \in Tasks :
        ( /\ OrderServed(t1) /\ task[t1].status = 201
          /\ OrderServed(t2) /\ t1 \in task[t2].after
          /\ task[t2].body.idempotencyKey = task[t1].body.idempotencyKey )
        => /\ task[t2].status = 200
           /\ task[t2].data.id = task[t1].data.id
           /\ task[t2].created = {}

\* C7: a POST /api/orders whose idempotencyKey matches no existing Order
\* responds 404 OUTFIT_NOT_FOUND and creates no Order if outfitId references no
\* existing Outfit; otherwise it creates exactly one Order with status
\* 'pending' carrying the request's userId, outfitId, fulfillment and
\* idempotencyKey, and responds 201.
C7_UnmatchedKeyOutcome ==
    \A t \in Tasks :
        (OrderServed(t) /\ task[t].loc.keyFree) =>
            IF ~task[t].loc.outfitExists
            THEN /\ task[t].status = 404 /\ task[t].code = "OUTFIT_NOT_FOUND"
                 /\ task[t].created = {}
            ELSE /\ task[t].status = 201
                 /\ \E id \in Ids(orders) :
                      /\ task[t].created = {id}
                      /\ task[t].data.id = id
                      /\ Rec(orders, id) = OrderFields(id, task[t].body)

\* the same outcome, for the requests whose lookup the store answered
C7_OutcomeAfterLookup ==
    \A t \in Tasks :
        (OrderServed(t) /\ task[t].loc.keyFree /\ task[t].storeCalls >= 2) =>
            IF ~task[t].loc.outfitExists
            THEN /\ task[t].status = 404 /\ task[t].code = "OUTFIT_NOT_FOUND"
                 /\ task[t].created = {}
            ELSE /\ task[t].status = 201
                 /\ \E id \in Ids(orders) :
                      /\ task[t].created = {id}
                      /\ task[t].data.id = id
                      /\ Rec(orders, id) = OrderFields(id, task[t].body)


-----------------------------------------------------------------------------
(* The ownership specification: concurrent writes to closet items and      *)
(* outfits of user A and of no user                                        *)

Item(n, name, oid) ==
    [id |-> RecId("c", n), name |-> name, category |-> <<"t">>, color |-> <<>>,
     brand |-> <<>>, photo |-> NoPhoto, owner |-> oid]

Look(n, oid, items) ==
    [id |-> RecId("o", n), owner |-> oid, items |-> items, title |-> "Look"]

UserHeaders == {Absent, UserA, UserB}

ClosetPatches ==
    [name : {Absent, <<"n">>, <<>>}, category : {Absent}, color : {Absent},
     brand : {Absent}, imageUrl : {Absent, Null, <<"x">>}]

ClosetBodies ==
    [name : {Absent, <<"n">>}, category : {<<"t">>}, color : {Absent},
     brand : {Absent}, imageUrl : {Absent, <<"u">>}]

InitOwner ==
    /\ closet = <<Item(1, <<"s">>, UserA), Item(2, <<"s">>, <<>>)>>
    /\ outfits = <<Look(3, UserA, <<RecId("c", 1)>>), Look(4, <<>>, <<RecId("c", 2)>>)>>
    /\ orders = <<>>
    /\ nextId = 5
    /\ env = DefaultEnv
    /\ task = [t \in Tasks |-> Idle]

NextOwner ==
    \E t \in Tasks :
        \/ \E hk \in {"bad", "good"}, hdr \in UserHeaders, b \in ClosetBodies :
               ClosetCreateBegin(t, hk, hdr, b)
        \/ ClosetCreate(t)
        \/ \E hk \in {"bad", "good"}, hdr \in UserHeaders, b \in ClosetPatches,
              id \in {RecId("c", 1), RecId("c", 2), RecId("c", 9)} :
               OwnedBegin(t, "PUT /api/closet/:id", hk, hdr, id, b)
        \/ \E hk \in {"bad", "good"}, hdr \in UserHeaders,
              id \in {RecId("c", 1), RecId("c", 2), RecId("c", 9)} :
               OwnedBegin(t, "DELETE /api/closet/:id", hk, hdr, id, NoBody)
        \/ \E hk \in {"bad", "good"}, hdr \in UserHeaders,
              id \in {RecId("o", 3), RecId("o", 4), RecId("o", 9)} :
               OwnedBegin(t, "DELETE /api/outfits/:id", hk, hdr, id, NoBody)
        \/ ClosetPutFind(t)
        \/ ClosetPutUpdate(t)
        \/ ClosetDeleteFind(t)
        \/ ClosetDeleteDestroy(t)
        \/ OutfitDeleteFind(t)
        \/ OutfitDeleteDestroy(t)

SpecOwner == InitOwner /\ [][NextOwner]_vars

OwnedRoutes == {"PUT /api/closet/:id", "DELETE /api/closet/:id", "DELETE /api/outfits/:id"}

\* the task's find returned the record, so the handler saw its owner
SawOwner(t) == task[t].route \in OwnedRoutes /\ "owner" \in DOMAIN task[t].loc

\* C3: for PUT /api/closet/:id, DELETE /api/closet/:id and DELETE
\* /api/outfits/:id, a requester whose user id differs from the record's
\* ownerUserId is answered 403 FORBIDDEN and issues no update or destroy; a
\* closet item is modified or removed, and an outfit removed, only by a request
\* whose user id equals its owner.
C3_OnlyOwnerWrites ==
    \A t \in Tasks :
        /\ (SawOwner(t) /\ task[t].loc.owner # task[t].uid) =>
               /\ Done(t) /\ task[t].status = 403 /\ task[t].code = "FORBIDDEN"
               /\ task[t].wrote = {} /\ task[t].storeCalls = 1
        /\ \A w \in task[t].wrote : w.owner = task[t].uid

\* user B was refused a write to an item of user A while A's own write went through
C3_Witness ==
    \E t1, t2 \in Tasks :
        /\ Done(t1) /\ task[t1].status = 403 /\ task[t1].uid = UserB
        /\ task[t1].loc.owner = UserA
        /\ Done(t2) /\ task[t2].wrote # {} /\ task[t2].uid = UserA

-----------------------------------------------------------------------------
(* GET /api/closet: list and search *)

\* String.prototype.toLowerCase and the formula's LOWER(), on the letters used
LowerChar(c) == IF c = "S" THEN "s" ELSE IF c = "T" THEN "t" ELSE c

LowerStr(s) == [i \in 1..Len(s) |-> LowerChar(s[i])]

\* FIND(needle, hay) > 0
Contains(hay, needle) ==
    \E i \in 0..Len(hay) :
        i + Len(needle) <= Len(hay) /\ SubSeq(hay, i + 1, i + Len(needle)) = needle

\* (req.header('x-user-id') || req.query.userId || '').toString().trim() || null
getUserId(hdr, quser) ==
    LET v == Trim(IF hdr \notin {Absent, <<>>} THEN hdr
                  ELSE IF quser \notin {Absent, <<>>} THEN quser ELSE <<>>)
    IN  IF v = <<>> THEN Null ELSE v

NoFilter == <<"<no filter>">>

\* `FIND(LOWER("${esc(String(q).toLowerCase())}"), LOWER({Item Name}))`
NameFilter(q) ==
    <<"FIND(LOWER(", DQ>> \o esc(LowerStr(q)) \o <<DQ, "), LOWER({Item Name}))">>

\* `OR({User Id}='${esc(uid)}', {User Id}=BLANK())`
ScopeFilter(uid) ==
    <<"OR({User Id}=", SQ>> \o esc(uid) \o <<SQ, ", {User Id}=BLANK())">>

ClosetListFormula_NameOnly(q, uid) ==
    IF q \notin {Absent, <<>>} THEN NameFilter(q)
    ELSE IF uid # Null THEN ScopeFilter(uid)
    ELSE NoFilter

\* cfg.filterByFormula: filters.length === 1 ? filters[0] : `AND(${filters.join(',')})`
ClosetListFormula(q, uid) ==
    LET hasQ == q \notin {Absent, <<>>}
        hasU == uid # Null
    IN  IF hasQ /\ hasU
        THEN <<"AND(">> \o NameFilter(q) \o <<",">> \o ScopeFilter(uid) \o <<")">>
        ELSE IF hasQ THEN NameFilter(q)
        ELSE IF hasU THEN ScopeFilter(uid)
        ELSE NoFilter

NameSkel == <<"FIND(LOWER(", LIT, "), LOWER({Item Name}))">>
ScopeSkel == <<"OR({User Id}=", LIT, ", {User Id}=BLANK())">>
BothSkel == <<"AND(">> \o NameSkel \o <<",">> \o ScopeSkel \o <<")">>

\* tbCloset.select(cfg).all(): every record without a formula, else the
\* records the formula is true of; a formula that is none of the three shapes
\* is one the store rejects
SelectCloset(f) ==
    IF f = NoFilter THEN [ok |-> TRUE, recs |-> closet]
    ELSE LET lx == Lex(f)
             NameOk(rec, lit) == Contains(LowerStr(rec.name), LowerStr(lit))
             ScopeOk(rec, lit) == rec.owner = lit \/ rec.owner = <<>>
             ByName(rec) == NameOk(rec, lx.lits[1])
             ByScope(rec) == ScopeOk(rec, lx.lits[1])
             ByBoth(rec) == NameOk(rec, lx.lits[1]) /\ ScopeOk(rec, lx.lits[2])
         IN  IF ~lx.ok THEN [ok |-> FALSE, recs |-> <<>>]
             ELSE IF lx.skel = NameSkel THEN [ok |-> TRUE, recs |-> SelectSeq(closet, ByName)]
             ELSE IF lx.skel = ScopeSkel THEN [ok |-> TRUE, recs |-> SelectSeq(closet, ByScope)]
             ELSE IF lx.skel = BothSkel THEN [ok |-> TRUE, recs |-> SelectSeq(closet, ByBoth)]
             ELSE [ok |-> FALSE, recs |-> <<>>]

firstUrl_TextOnly(photo) ==
    IF photo = NoPhoto THEN Absent
    ELSE IF photo[1] = "att" THEN Absent
    ELSE photo[2]

\* firstUrl(rawPhoto): the url of an attachment, or the text
firstUrl(photo) ==
    IF photo = NoPhoto THEN Absent
    ELSE IF photo[1] = "att" THEN (IF Len(photo) >= 2 THEN photo[2] ELSE Absent)
    ELSE photo[2]

\* records.map(r => ({ id, name, category, brand, color, imageUrl }))
ClosetView(recs) ==
    [i \in 1..Len(recs) |->
        [id |-> recs[i].id, name |-> recs[i].name, category |-> recs[i].category,
         imageUrl |-> firstUrl(recs[i].photo)]]

\* requireApiKey, getUserId, the filters, then the select is issued
ClosetListBegin(t, hk, hdr, quser, q) ==
    /\ task[t].pc = "idle"
    /\ LET uid == getUserId(hdr, quser)
           r == Arrive(t, "GET /api/closet", hk, IF uid = Null THEN <<>> ELSE uid, NoBody)
       IN  task' = [task EXCEPT ![t] =
               IF ~requireApiKey(hk) THEN Unauthorized(r)
               ELSE [r EXCEPT !.pc = "closet_list",
                              !.loc = [q |-> q, formula |-> ClosetListFormula(q, uid)]]]
    /\ UNCHANGED <<closet, outfits, orders, nextId, env>>

\* const records = await tbCloset.select(cfg).all(); res.json({ data })
ClosetList(t) ==
    /\ task[t].pc = "closet_list"
    /\ \E fail \in BOOLEAN :
       LET r == [task[t] EXCEPT !.storeCalls = @ + 1, !.xfail = @ \/ fail]
           res == SelectCloset(r.loc.formula)
       IN  task' = [task EXCEPT ![t] =
               IF fail \/ ~res.ok THEN ErrorHandler(r, AirtableError)
               ELSE Respond(r, 200, "", "", ClosetView(res.recs))]
    /\ UNCHANGED <<closet, outfits, orders, nextId, env>>

-----------------------------------------------------------------------------
(* The closet-list specification: searches by users A, B and by nobody     *)
(* over items of A, of B and of no user                                    *)

QueryTexts == {Absent} \cup StrUpTo({"s", "S", DQ, SQ, BS}, MaxQLen)

InitCloset ==
    /\ closet = <<Item(1, <<"S", "s">>, UserA), Item(2, <<"s">>, UserB),
                  Item(3, <<"t">>, <<>>)>>
    /\ outfits = <<>>
    /\ orders = <<>>
    /\ nextId = 4
    /\ env = DefaultEnv
    /\ task = [t \in Tasks |-> Idle]

NextCloset ==
    \E t \in Tasks :
        \/ \E hk \in {"bad", "good"}, hdr \in UserHeaders, quser \in {Absent, UserB},
              q \in QueryTexts :
               ClosetListBegin(t, hk, hdr, quser, q)
        \/ ClosetList(t)

SpecCloset == InitCloset /\ [][NextCloset]_vars

\* the task's GET /api/closet was answered with a list
Listed(t) ==
    /\ Done(t) /\ task[t].route = "GET /api/closet" /\ task[t].app = "part_002"
    /\ task[t].status = 200

\* C6: GET /api/closet never returns an item owned by a user other than the
\* requester: every returned item is unowned or has ownerUserId equal to the
\* requester's id, and when q is given every returned item's name contains q
\* case-insensitively.
C6_ListIsScoped ==
    \A t \in Tasks :
        Listed(t) =>
            \A i \in 1..Len(task[t].data) :
                LET rec == Rec(closet, task[t].data[i].id) IN
                /\ rec.owner \in {<<>>, task[t].uid}
                /\ task[t].loc.q \notin {Absent, <<>>} =>
                       Contains(LowerStr(rec.name), LowerStr(task[t].loc.q))

\* the same, for the requests that name a user
C6_ScopedWhenUserGiven ==
    \A t \in Tasks :
        (Listed(t) /\ task[t].uid # <<>>) =>
            \A i \in 1..Len(task[t].data) :
                LET rec == Rec(closet, task[t].data[i].id) IN
                /\ rec.owner \in {<<>>, task[t].uid}
                /\ task[t].loc.q \notin {Absent, <<>>} =>
                       Contains(LowerStr(rec.name), LowerStr(task[t].loc.q))

-----------------------------------------------------------------------------
(* fetchClosetItemsByIds *)

BatchSize == 10

Min(a, b) == IF a <= b THEN a ELSE b

Range(s) == { s[i] : i \in 1..Len(s) }

Batch_OneTooMany(ids, at) == SubSeq(ids, at, Min(at + BatchSize, Len(ids)))

\* ids.slice(i, i + 10), i counted from 1
Batch(ids, at) == SubSeq(ids, at, Min(at + BatchSize - 1, Len(ids)))

\* batch.map(id => `RECORD_ID() = '${esc(id)}'`).join(', ')
RECURSIVE IdClauses(_)
IdClauses(batch) ==
    IF batch = <<>> THEN <<>>
    ELSE <<"RECORD_ID() = ", SQ>> \o esc(Head(batch)) \o <<SQ>>
         \o (IF Len(batch) > 1 THEN <<", ">> ELSE <<>>) \o IdClauses(Tail(batch))

\* `OR(${...})`
IdsFormula(batch) == <<"OR(">> \o IdClauses(batch) \o <<")">>

RECURSIVE IdClausesSkel(_)
IdClausesSkel(n) ==
    IF n = 0 THEN <<>>
    ELSE <<"RECORD_ID() = ", LIT>> \o (IF n > 1 THEN <<", ">> ELSE <<>>)
         \o IdClausesSkel(n - 1)

IdsSkel(n) == <<"OR(">> \o IdClausesSkel(n) \o <<")">>

\* tbCloset.select({ filterByFormula: formula }).all(): the records whose id
\* is one of the literals, in the table's order
SelectClosetByIds(batch) ==
    LET lx == Lex(IdsFormula(batch))
        Named(rec) == rec.id \in Range(lx.lits)
    IN  IF lx.ok /\ lx.skel = IdsSkel(Len(batch))
        THEN [ok |-> TRUE, recs |-> SelectSeq(closet, Named)]
        ELSE [ok |-> FALSE, recs |-> <<>>]

\* the locals of a running fetchClosetItemsByIds(ids): the next batch, out
Fetching(ids) == [ids |-> ids, at |-> 1, items |-> <<>>]

\* one turn of the loop: the awaited select of the batch at loc.at completes
\* and out.push(...page)
FetchTurn(r, fail) ==
    LET res == SelectClosetByIds(Batch(r.loc.ids, r.loc.at))
        r1 == [r EXCEPT !.storeCalls = @ + 1, !.xfail = @ \/ fail]
    IN  [ok |-> ~fail /\ res.ok,
         r |-> [r1 EXCEPT !.loc.items = @ \o res.recs, !.loc.at = @ + BatchSize]]

\* the loop has run through ids
FetchOver(r) == r.loc.at > Len(r.loc.ids)

-----------------------------------------------------------------------------
(* AI output text, extractJson *)

\* a text of the AI backend is a sequence of these pieces
\* the code-fence markers: three backquotes followed by json, three backquotes
FenceJson == "<fence json>"
Fence == "<fence>"
LB == "{"
RB == "}"
Prose == "Sure!"
MOutfits0 == "\"outfits\":[]"
MOutfits1 == "\"outfits\":[o1]"
MOutfits2 == "\"outfits\":[o1,o2]"
MOutfitsNum == "\"outfits\":7"
MOther == "\"note\":1"
MLabel == "\"name\":\"tee\""

Members == {MOutfits0, MOutfits1, MOutfits2, MOutfitsNum, MOther, MLabel}

\* the outfit objects o1, o2 of the AI: a name and item ids of its own choosing
AiOutfit(n) ==
    [name |-> IF n = 1 THEN "o1" ELSE "o2", items |-> <<RecId("c", 9)>>, preview |-> <<>>]

\* s.replace(/<fence json>|<fence>/g, '')
StripFences(s) == LET Kept(x) == x \notin {FenceJson, Fence} IN SelectSeq(s, Kept)

\* indexOf and lastIndexOf, counted from 1; 0 is JavaScript's -1
IndexOf(s, c) ==
    IF \E i \in 1..Len(s) : s[i] = c
    THEN CHOOSE i \in 1..Len(s) : s[i] = c /\ \A j \in 1..(i - 1) : s[j] # c
    ELSE 0

LastIndexOf(s, c) ==
    IF \E i \in 1..Len(s) : s[i] = c
    THEN CHOOSE i \in 1..Len(s) : s[i] = c /\ \A j \in (i + 1)..Len(s) : s[j] # c
    ELSE 0

NullJson == [valid |-> FALSE, member |-> ""]

\* JSON.parse: an object with no member or with one of the members, white
\* space allowed around the pieces; anything else throws
JsonParse(s) ==
    LET NotSpace(x) == x # SP
        u == SelectSeq(s, NotSpace)
    IN  IF u = <<LB, RB>> THEN [valid |-> TRUE, member |-> ""]
        ELSE IF Len(u) = 3 /\ u[1] = LB /\ u[3] = RB /\ u[2] \in Members
             THEN [valid |-> TRUE, member |-> u[2]]
             ELSE NullJson

extractJson_ParseWhole(s) == IF s = <<>> THEN NullJson ELSE JsonParse(Trim(s))

\* const extractJson = (s) => ...
extractJson(s) ==
    IF s = <<>> THEN NullJson
    ELSE LET u == Trim(StripFences(s))
             a == IndexOf(u, LB)
             b == LastIndexOf(u, RB)
         IN  IF a = 0 \/ b = 0 THEN NullJson ELSE JsonParse(SubSeq(u, a, b))

\* parsed.outfits, when it is an array
OutfitsOf(parsed) ==
    IF parsed.member = MOutfits1 THEN <<AiOutfit(1)>>
    ELSE IF parsed.member = MOutfits2 THEN <<AiOutfit(1), AiOutfit(2)>>
    ELSE <<>>

-----------------------------------------------------------------------------
(* generateOutfitsWithAI *)

\* what an awaited completion call ends in: a text, or a rejection with the
\* backend's status (0: none, a transport failure) and message
AiText(s) == [kind |-> "text", text |-> s, status |-> 0, message |-> ""]
AiError(st, m) == [kind |-> "error", text |-> <<>>, status |-> st, message |-> m]

NoOutcome == [kind |-> "none", text |-> <<>>, status |-> 0, message |-> ""]

\* the messages /not authorized/i matches
NotAuthorizedMessages == {"You are not authorized to use this API"}

Attempt_StubOnFailure(out) ==
    IF out.kind = "text" /\ OutfitsOf(extractJson(out.text)) # <<>>
    THEN [ok |-> TRUE, outfits |-> OutfitsOf(extractJson(out.text)),
          err |-> [message |-> "", status |-> 0, code |-> ""]]
    ELSE [ok |-> TRUE, outfits |-> <<[name |-> "stub", items |-> <<>>, preview |-> <<>>]>>,
          err |-> [message |-> "", status |-> 0, code |-> ""]]

\* the body of a try block after its await: the text, extractJson, the two
\* throws, return parsed.outfits
Attempt(out) ==
    IF out.kind = "error"
    THEN [ok |-> FALSE, outfits |-> <<>>,
          err |-> [message |-> out.message, status |-> out.status, code |-> ""]]
    ELSE LET parsed == extractJson(out.text) IN
         IF ~parsed.valid
         THEN [ok |-> FALSE, outfits |-> <<>>,
               err |-> [message |-> "AI_JSON_PARSE_ERROR", status |-> 502, code |-> ""]]
         ELSE IF OutfitsOf(parsed) = <<>>
         THEN [ok |-> FALSE, outfits |-> <<>>,
               err |-> [message |-> "AI_EMPTY_OUTFITS", status |-> 502, code |-> ""]]
         ELSE [ok |-> TRUE, outfits |-> OutfitsOf(parsed),
               err |-> [message |-> "", status |-> 0, code |-> ""]]

\* throw Object.assign(new Error(`OPENAI_ERROR: ${msg}`), { status, details })
WrapAiError(e) ==
    [message |-> "OPENAI_ERROR: " \o (IF e.message = "" THEN "OpenAI error" ELSE e.message),
     status |-> IF e.status = 0 THEN 502 ELSE e.status,
     code |-> ""]

\* catch (e1): part_002 always tries chat.completions; part_000 only
\* if (e1?.status === 403 || /not authorized/i.test(e1?.message || ''))
FallsBack(app, e1) ==
    IF app = "part_002" THEN TRUE
    ELSE e1.status = 403 \/ e1.message \in NotAuthorizedMessages
-----------------------------------------------------------------------------
(* POST /api/outfits/suggest *)

\* OutfitSuggestSchema; itemIds <<>> is an absent or empty array, topK <<>>
\* an absent one
OutfitSuggestSchema(b) ==
    /\ b.occasion # Absent /\ Len(b.occasion) >= 1
    /\ Len(b.itemIds) >= 1
    /\ b.topK = <<>> \/ b.topK[1] \in 1..5

\* parsed.data: topK .default(1), kept as <<k>>
ParsedSuggest(b) == [b EXCEPT !.topK = IF @ = <<>> THEN <<1>> ELSE @]

\* the outfit the handler makes up itself when SKIP_OPENAI is 'true'
StubOutfit(items) ==
    [name |-> "stub", items |-> [i \in 1..Len(items) |-> items[i].id], preview |-> <<>>]

OutfitFields_AiItems(app, id, o, items, uid) ==
    [id |-> id, owner |-> IF app = "part_002" THEN uid ELSE <<>>,
     items |-> o.items, title |-> o.name]

\* the fields of the Outfits record for outfit o: part_002 sets User Id,
\* buildOutfitFields of part_000 does not
OutfitFields(app, id, o, items, uid) ==
    [id |-> id, owner |-> IF app = "part_002" THEN uid ELSE <<>>,
     items |-> [i \in 1..Len(items) |-> items[i].id], title |-> o.name]

\* requireApiKey, OutfitSuggestSchema.safeParse(req.body), then
\* fetchClosetItemsByIds(itemIds) issues its first select
SuggestBegin(t, app, hk, hdr, b) ==
    /\ task[t].pc = "idle"
    /\ LET r == [Arrive(t, "POST /api/outfits/suggest", hk, getUid(hdr), b) EXCEPT !.app = app]
       IN  task' = [task EXCEPT ![t] =
               IF ~requireApiKey(hk) THEN Unauthorized(r)
               ELSE IF ~OutfitSuggestSchema(b)
                    THEN Respond(r, 400, "BAD_REQUEST", "flatten", NoBody)
                    ELSE [r EXCEPT !.pc = "suggest_fetch", !.body = ParsedSuggest(b),
                                   !.loc = [ids |-> b.itemIds, at |-> 1, items |-> <<>>,
                                            outfits |-> <<>>, made |-> <<>>,
                                            out1 |-> NoOutcome, out2 |-> NoOutcome]]]
    /\ UNCHANGED <<closet, outfits, orders, nextId, env>>

\* a select of fetchClosetItemsByIds completes; after the last one: 400
\* NO_ITEMS, or the stub and the first create, or the primary completion call
SuggestFetch(t) ==
    /\ task[t].pc = "suggest_fetch"
    /\ \E fail \in BOOLEAN :
       LET ft == FetchTurn(task[t], fail)
           r == ft.r
       IN  task' = [task EXCEPT ![t] =
               IF ~ft.ok THEN ErrorHandler(r, AirtableError)
               ELSE IF ~FetchOver(r) THEN r
               ELSE IF r.loc.items = <<>>
                    THEN Respond(r, 400, "NO_ITEMS", "Provide valid itemIds", NoBody)
               ELSE IF r.app = "part_002" /\ env.skipOpenAI
                    THEN [r EXCEPT !.pc = "suggest_create",
                                   !.loc.outfits = <<StubOutfit(r.loc.items)>>]
               ELSE [r EXCEPT !.pc = "suggest_ai1"]]
    /\ UNCHANGED <<closet, outfits, orders, nextId, env>>

\* await openai.responses.create(...) ends in out
SuggestPrimary(t, out) ==
    /\ task[t].pc = "suggest_ai1"
    /\ LET r == [task[t] EXCEPT !.aiCalls = @ + 1, !.loc.out1 = out]
           att == Attempt(out)
       IN  task' = [task EXCEPT ![t] =
               IF att.ok THEN [r EXCEPT !.pc = "suggest_create", !.loc.outfits = att.outfits]
               ELSE IF FallsBack(r.app, att.err) THEN [r EXCEPT !.pc = "suggest_ai2"]
               ELSE ErrorHandler(r, WrapAiError(att.err))]
    /\ UNCHANGED <<closet, outfits, orders, nextId, env>>

\* await openai.chat.completions.create(...) ends in out
SuggestSecondary(t, out) ==
    /\ task[t].pc = "suggest_ai2"
    /\ LET r == [task[t] EXCEPT !.aiCalls = @ + 1, !.loc.out2 = out]
           att == Attempt(out)
       IN  task' = [task EXCEPT ![t] =
               IF att.ok THEN [r EXCEPT !.pc = "suggest_create", !.loc.outfits = att.outfits]
               ELSE ErrorHandler(r, WrapAiError(att.err))]
    /\ UNCHANGED <<closet, outfits, orders, nextId, env>>

\* for (const o of outfits): await tbOutfits.create([{ fields }]) of the next
\* outfit completes; after the last one 201 with the created records
SuggestCreate(t) ==
    /\ task[t].pc = "suggest_create"
    /\ \E fail \in BOOLEAN :
       LET r == [task[t] EXCEPT !.storeCalls = @ + 1, !.xfail = @ \/ fail]
           o == r.loc.outfits[Len(r.loc.made) + 1]
           rec == OutfitFields(r.app, RecId("o", nextId), o, r.loc.items, r.uid)
           r2 == [r EXCEPT !.loc.made = Append(@, rec), !.created = @ \cup {rec.id}]
       IN  IF fail
           THEN /\ task' = [task EXCEPT ![t] = ErrorHandler(r, AirtableError)]
                /\ UNCHANGED <<outfits, nextId>>
           ELSE /\ outfits' = Append(outfits, rec)
                /\ nextId' = nextId + 1
                /\ task' = [task EXCEPT ![t] =
                       IF Len(r2.loc.made) = Len(r.loc.outfits)
                       THEN Respond(r2, 201, "", "", r2.loc.made)
                       ELSE r2]
    /\ UNCHANGED <<closet, orders, env>>

-----------------------------------------------------------------------------
(* GET /api/outfits/archive *)

\* `{User Id}='${uid}'`
ArchiveFormula(uid) == <<"{User Id}=", SQ>> \o uid \o <<SQ>>

ArchiveSkel == <<"{User Id}=", LIT>>

RECURSIVE Flatten(_)
Flatten(ss) == IF ss = <<>> THEN <<>> ELSE Head(ss) \o Flatten(Tail(ss))

\* [...new Set(list)]: first occurrences, in order
RECURSIVE Dedup(_)
Dedup(s) ==
    IF s = <<>> THEN <<>>
    ELSE LET d == Dedup(SubSeq(s, 1, Len(s) - 1))
         IN  IF s[Len(s)] \in Range(d) THEN d ELSE Append(d, s[Len(s)])

\* tbOutfits.select({ filterByFormula }).all()
SelectOutfitsByUser(f) ==
    LET lx == Lex(f)
        Mine(rec) == rec.owner = lx.lits[1]
    IN  IF lx.ok /\ lx.skel = ArchiveSkel
        THEN [ok |-> TRUE, recs |-> SelectSeq(outfits, Mine)]
        ELSE [ok |-> FALSE, recs |-> <<>>]

\* normalized: id, title, the names of the linked items that were found
ArchiveView(recs, items) ==
    [i \in 1..Len(recs) |->
        [id |-> recs[i].id,
         title |-> IF recs[i].title = "" THEN "Saved outfit" ELSE recs[i].title,
         items |-> LET Found(id) == \E k \in 1..Len(items) : items[k].id = id
                       ids == SelectSeq(recs[i].items, Found)
                   IN  [k \in 1..Len(ids) |->
                           (CHOOSE it \in Range(items) : it.id = ids[k]).name]]]

\* requireApiKey, getUid, then the select is issued
ArchiveBegin(t, hk, hdr) ==
    /\ task[t].pc = "idle"
    /\ LET r == Arrive(t, "GET /api/outfits/archive", hk, getUid(hdr), NoBody) IN
       task' = [task EXCEPT ![t] =
           IF ~requireApiKey(hk) THEN Unauthorized(r)
           ELSE [r EXCEPT !.pc = "archive_select",
                          !.loc = [formula |-> ArchiveFormula(r.uid)]]]
    /\ UNCHANGED <<closet, outfits, orders, nextId, env>>

\* the select completes; fetchClosetItemsByIds([...needClosetIds]) issues its
\* first select, or returns [] at once and the list is sent
ArchiveSelect(t) ==
    /\ task[t].pc = "archive_select"
    /\ \E fail \in BOOLEAN :
       LET r == [task[t] EXCEPT !.storeCalls = @ + 1, !.xfail = @ \/ fail]
           res == SelectOutfitsByUser(r.loc.formula)
           need == Dedup(Flatten([i \in 1..Len(res.recs) |-> res.recs[i].items]))
       IN  task' = [task EXCEPT ![t] =
               IF fail \/ ~res.ok THEN ErrorHandler(r, AirtableError)
               ELSE IF need = <<>>
                    THEN Respond(r, 200, "", "", [outfits |-> ArchiveView(res.recs, <<>>)])
                    ELSE [r EXCEPT !.pc = "archive_fetch",
                                   !.loc = [ids |-> need, at |-> 1, items |-> <<>>,
                                            recs |-> res.recs]]]
    /\ UNCHANGED <<closet, outfits, orders, nextId, env>>

\* a select of fetchClosetItemsByIds completes; after the last one
\* res.json({ outfits: normalized, catalog })
ArchiveFetch(t) ==
    /\ task[t].pc = "archive_fetch"
    /\ \E fail \in BOOLEAN :
       LET ft == FetchTurn(task[t], fail)
           r == ft.r
       IN  task' = [task EXCEPT ![t] =
               IF ~ft.ok THEN ErrorHandler(r, AirtableError)
               ELSE IF ~FetchOver(r) THEN r
               ELSE Respond(r, 200, "", "", [outfits |-> ArchiveView(r.loc.recs, r.loc.items)])]
    /\ UNCHANGED <<closet, outfits, orders, nextId, env>>

-----------------------------------------------------------------------------
(* POST /api/outfits/save *)

\* SaveOutfitSchema; title "" is an absent or empty title
SaveOutfitSchema(b) ==
    /\ b.title # ""
    /\ Len(b.itemIds) >= 1
    /\ b.photoUrl = Absent \/ IsUrl(b.photoUrl)

\* requireApiKey, getUserId, SaveOutfitSchema.parse(req.body), then
\* fetchClosetItemsByIds(itemIds) issues its first select
SaveBegin(t, hk, hdr, quser, b) ==
    /\ task[t].pc = "idle"
    /\ LET uid == getUserId(hdr, quser)
           r == Arrive(t, "POST /api/outfits/save", hk, IF uid = Null THEN <<>> ELSE uid, b)
       IN  task' = [task EXCEPT ![t] =
               IF ~requireApiKey(hk) THEN Unauthorized(r)
               ELSE IF ~SaveOutfitSchema(b) THEN ErrorHandler(r, ZodError)
               ELSE [r EXCEPT !.pc = "save_fetch", !.loc = Fetching(b.itemIds)]]
    /\ UNCHANGED <<closet, outfits, orders, nextId, env>>

\* a select of fetchClosetItemsByIds completes; after the last one 400
\* ITEMS_NOT_FOUND if items.length !== itemIds.length, else the create is issued
SaveFetch(t) ==
    /\ task[t].pc = "save_fetch"
    /\ \E fail \in BOOLEAN :
       LET ft == FetchTurn(task[t], fail)
           r == ft.r
       IN  task' = [task EXCEPT ![t] =
               IF ~ft.ok THEN ErrorHandler(r, AirtableError)
               ELSE IF ~FetchOver(r) THEN r
               ELSE IF Len(r.loc.items) # Len(r.loc.ids)
                    THEN Respond(r, 400, "ITEMS_NOT_FOUND", "Some itemIds are invalid",
                                 [requested |-> Len(r.loc.ids), found |-> Len(r.loc.items)])
               ELSE [r EXCEPT !.pc = "save_create"]]
    /\ UNCHANGED <<closet, outfits, orders, nextId, env>>

\* await tbOutfits.create([{ fields }], { typecast: true }); 201
SaveCreate(t) ==
    /\ task[t].pc = "save_create"
    /\ \E fail \in BOOLEAN :
       LET r == [task[t] EXCEPT !.storeCalls = @ + 1, !.xfail = @ \/ fail]
           rec == [id |-> RecId("o", nextId), owner |-> r.uid, items |-> r.body.itemIds,
                   title |-> r.body.title]
       IN  IF fail
           THEN /\ task' = [task EXCEPT ![t] = ErrorHandler(r, AirtableError)]
                /\ UNCHANGED <<outfits, nextId>>
           ELSE /\ outfits' = Append(outfits, rec)
                /\ nextId' = nextId + 1
                /\ task' = [task EXCEPT ![t] =
                       Respond([r EXCEPT !.created = @ \cup {rec.id}], 201, "", "",
                               [id |-> rec.id, title |-> rec.title, items |-> rec.items])]
    /\ UNCHANGED <<closet, orders, env>>

-----------------------------------------------------------------------------
(* POST /api/closet/describe *)

DescribeSchema(b) == IsUrl(b.imageUrl)

BlankLabel == [valid |-> TRUE, member |-> "\"name\":\"\""]

\* describeImage after its await: content.trim() || '{}', the fences
\* removed, JSON.parse or the blank label
describeImage(text) ==
    LET s == IF Trim(text) = <<>> THEN <<LB, RB>> ELSE Trim(text)
        parsed == JsonParse(StripFences(s))
    IN  IF parsed.valid THEN parsed ELSE BlankLabel

\* requireApiKey, DescribeSchema.parse(req.body), then the stub of
\* SKIP_OPENAI or the completion call is issued
DescribeBegin(t, hk, b) ==
    /\ task[t].pc = "idle"
    /\ LET r == Arrive(t, "POST /api/closet/describe", hk, <<>>, b) IN
       task' = [task EXCEPT ![t] =
           IF ~requireApiKey(hk) THEN Unauthorized(r)
           ELSE IF ~DescribeSchema(b) THEN ErrorHandler(r, ZodError)
           ELSE IF env.skipOpenAI
                THEN Respond(r, 200, "", "", [valid |-> TRUE, member |-> "\"name\":\"Basic item\""])
                ELSE [r EXCEPT !.pc = "describe_ai"]]
    /\ UNCHANGED <<closet, outfits, orders, nextId, env>>

\* await openai.chat.completions.create(...) ends in out; res.json({ data })
DescribeAi(t, out) ==
    /\ task[t].pc = "describe_ai"
    /\ LET r == [task[t] EXCEPT !.aiCalls = @ + 1, !.loc = [out |-> out]] IN
       task' = [task EXCEPT ![t] =
           IF out.kind = "error"
           THEN ErrorHandler(r, [message |-> out.message, status |-> out.status, code |-> ""])
           ELSE Respond(r, 200, "", "", describeImage(out.text))]
    /\ UNCHANGED <<closet, outfits, orders, nextId, env>>

-----------------------------------------------------------------------------
(* The suggestion specification: concurrent suggest and archive requests   *)
(* of users A and B over two closet items of A                             *)

TextOne == <<LB, MOutfits1, RB>>
TextTwo == <<LB, MOutfits2, RB>>

\* what a completion call may end in
SuggestOutcomes ==
    {AiText(TextOne), AiText(TextTwo), AiText(<<Prose>>), AiText(<<LB, MOutfits0, RB>>),
     AiError(429, "Rate limit reached"), AiError(0, "socket hang up")}

SuggestBodies ==
    [occasion : {<<"w">>},
     itemIds : {<<RecId("c", 1)>>, <<RecId("c", 1), RecId("c", 2)>>, <<RecId("c", 9)>>},
     topK : {<<>>, <<1>>, <<2>>}]

InitSuggest ==
    /\ closet = <<Item(1, <<"s">>, UserA), Item(2, <<"t">>, UserA)>>
    /\ outfits = <<>>
    /\ orders = <<>>
    /\ nextId = 3
    /\ env \in {e \in Envs : e.photoAttachment}
    /\ task = [t \in Tasks |-> Idle]

NextSuggest ==
    \E t \in Tasks :
        \/ \E hk \in {"bad", "good"}, hdr \in {UserA, UserB}, b \in SuggestBodies :
               SuggestBegin(t, "part_002", hk, hdr, b)
        \/ SuggestFetch(t)
        \/ \E out \in SuggestOutcomes : SuggestPrimary(t, out)
        \/ \E out \in SuggestOutcomes : SuggestSecondary(t, out)
        \/ SuggestCreate(t)
        \/ \E hdr \in {UserA, UserB} : ArchiveBegin(t, "good", hdr)
        \/ ArchiveSelect(t)
        \/ ArchiveFetch(t)

SpecSuggest == InitSuggest /\ [][NextSuggest]_vars

IsSuggest(t) == task[t].route = "POST /api/outfits/suggest" /\ task[t].app = "part_002"

\* the last completion call the request made, when it made one
LastOutcome(t) ==
    IF task[t].loc.out2.kind # "none" THEN task[t].loc.out2 ELSE task[t].loc.out1

\* the request's AI call ended in a failure or in output that cannot be used
AiFailed(t) ==
    /\ IsSuggest(t) /\ task[t].aiCalls >= 1
    /\ task[t].pc # "suggest_ai2"
    /\ ~Attempt(LastOutcome(t)).ok

AiErrorCodes == {"OPENAI_ERROR", "AI_JSON_PARSE_ERROR", "AI_EMPTY_OUTFITS"}

\* C8: whenever the AI backend call fails or returns unusable output during
\* POST /api/outfits/suggest (bypass flag off), the response is HTTP 502 with
\* error code OPENAI_ERROR, AI_JSON_PARSE_ERROR or AI_EMPTY_OUTFITS, and no
\* Outfit record is persisted by that request.
C8_AiFailureIs502 ==
    \A t \in Tasks :
        (AiFailed(t) /\ ~env.skipOpenAI) =>
            /\ Done(t) /\ task[t].status = 502
            /\ task[t].code \in AiErrorCodes
            /\ task[t].created = {}

\* what does hold of such a request: it is answered with an error and
\* persists nothing
C8_AiFailurePersistsNothing ==
    \A t \in Tasks :
        (AiFailed(t) /\ ~env.skipOpenAI) =>
            /\ Done(t) /\ task[t].status >= 400
            /\ task[t].created = {}

\* the ids a returned outfit links
Linked(o) == Range(o.items)

\* t2 is an archive request of the user of t, taken up after t was answered
ArchiveAfter(t2, t) ==
    /\ task[t2].route = "GET /api/outfits/archive" /\ Done(t2) /\ ~task[t2].xfail
    /\ t \in task[t2].after
    /\ task[t2].uid = task[t].uid

\* C10: POST /api/outfits/suggest with topK = k responds 201 with at most k
\* Outfits (exactly one when topK = 1); the linked items of each returned
\* Outfit are a subset of the requested itemIds; and each returned Outfit is
\* persisted with the requester's id so that it appears in that requester's
\* subsequent GET /api/outfits/archive.
C10_SuggestReturnsTopK ==
    \A t \in Tasks :
        (IsSuggest(t) /\ Done(t) /\ task[t].status = 201) =>
            /\ Len(task[t].data) <= task[t].body.topK[1]
            /\ task[t].body.topK[1] = 1 => Len(task[t].data) = 1
            /\ \A i \in 1..Len(task[t].data) :
                 /\ Linked(task[t].data[i]) \subseteq Range(task[t].body.itemIds)
                 /\ Has(outfits, task[t].data[i].id)
                 /\ Rec(outfits, task[t].data[i].id).owner = task[t].uid
                 /\ \A t2 \in Tasks :
                      ArchiveAfter(t2, t) =>
                          /\ task[t2].status = 200
                          /\ \E k \in 1..Len(task[t2].data.outfits) :
                                 task[t2].data.outfits[k].id = task[t].data[i].id

\* the same without the bound on the number of outfits
C10_SuggestPersistsForRequester ==
    \A t \in Tasks :
        (IsSuggest(t) /\ Done(t) /\ task[t].status = 201) =>
            /\ Len(task[t].data) >= 1
            /\ \A i \in 1..Len(task[t].data) :
                 /\ Linked(task[t].data[i]) \subseteq Range(task[t].body.itemIds)
                 /\ Has(outfits, task[t].data[i].id)
                 /\ Rec(outfits, task[t].data[i].id).owner = task[t].uid
                 /\ \A t2 \in Tasks :
                      ArchiveAfter(t2, t) =>
                          /\ task[t2].status = 200
                          /\ \E k \in 1..Len(task[t2].data.outfits) :
                                 task[t2].data.outfits[k].id = task[t].data[i].id

-----------------------------------------------------------------------------
(* The generation specification: one request, both builds of                *)
(* generateOutfitsWithAI, every text of the primary call up to MaxTextLen   *)
(* pieces                                                                   *)

GenPieces == {LB, RB, MOutfits0, MOutfits1, MOther, Prose, Fence, SP}

GenTexts ==
    StrUpTo(GenPieces, MaxTextLen)
    \cup {<<FenceJson, LB, MOutfits1, RB, Fence>>, <<Prose, LB, MOutfits2, RB, Prose>>,
          <<LB, MOutfitsNum, RB>>, <<FenceJson, LB, MOutfits0, RB, Fence>>}

GenPrimary ==
    {AiText(s) : s \in GenTexts}
    \cup {AiError(403, "Forbidden"), AiError(0, "You are not authorized to use this API"),
          AiError(429, "Rate limit reached")}

GenBody == [occasion |-> <<"w">>, itemIds |-> <<RecId("c", 1)>>, topK |-> <<1>>]

InitGenerate ==
    /\ closet = <<Item(1, <<"s">>, UserA), Item(2, <<"t">>, UserA)>>
    /\ outfits = <<>>
    /\ orders = <<>>
    /\ nextId = 3
    /\ env = DefaultEnv
    /\ task = [t \in Tasks |-> Idle]

\* generateOutfitsWithAI keeps nothing between requests: one request at a time
NextGenerate ==
    \E t \in {"t1"} :
        \/ \E app \in {"part_002", "part_000"} : SuggestBegin(t, app, "good", UserA, GenBody)
        \/ SuggestFetch(t)
        \/ \E out \in GenPrimary : SuggestPrimary(t, out)
        \/ \E out \in SuggestOutcomes : SuggestSecondary(t, out)
        \/ SuggestCreate(t)

SpecGenerate == InitGenerate /\ [][NextGenerate]_vars

\* the part of a text from its first { to its last }, fences removed
BraceSlice(s) ==
    LET u == StripFences(s) IN
    IF \E i, j \in 1..Len(u) : u[i] = LB /\ u[j] = RB
    THEN SubSeq(u, IndexOf(u, LB), LastIndexOf(u, RB))
    ELSE <<>>

\* the text holds no { } pair, or what the braces delimit is not valid JSON
Malformed(s) == ~JsonParse(BraceSlice(s)).valid

\* the text parses, and its outfits array is absent or empty
ParsesWithoutOutfits(s) ==
    /\ JsonParse(BraceSlice(s)).valid
    /\ JsonParse(BraceSlice(s)).member \notin {MOutfits1, MOutfits2}

\* the request failed and its error names the kind
FailedWith(t, kind) ==
    /\ Done(t) /\ task[t].status >= 400
    /\ task[t].message \in {kind, "OPENAI_ERROR: " \o kind}

\* the texts generateOutfitsWithAI received in request t
TextsRead(t) ==
    { o.text : o \in { x \in {task[t].loc.out1, task[t].loc.out2} : x.kind = "text" } }

Generated(t) ==
    /\ task[t].route = "POST /api/outfits/suggest" /\ task[t].aiCalls >= 1
    /\ task[t].pc \in {"done", "suggest_create"}

\* C9: generateOutfitsWithAI on AI text that contains no { } pair, or whose
\* brace-delimited substring is not valid JSON, fails with error kind
\* AI_JSON_PARSE_ERROR; on text that parses but whose outfits array is absent
\* or empty it fails with the distinct kind AI_EMPTY_OUTFITS; in neither case
\* does an exception escape the request handler uncaught.
C9_ParseFailureKinds ==
    \A t \in Tasks :
        Generated(t) =>
            \A s \in TextsRead(t) :
                /\ Malformed(s) => FailedWith(t, "AI_JSON_PARSE_ERROR")
                /\ ParsesWithoutOutfits(s) => FailedWith(t, "AI_EMPTY_OUTFITS")

\* the same of the last text read only
C9_LastTextDecides ==
    \A t \in Tasks :
        (Generated(t) /\ LastOutcome(t).kind = "text") =>
            /\ Malformed(LastOutcome(t).text) => FailedWith(t, "AI_JSON_PARSE_ERROR")
            /\ ParsesWithoutOutfits(LastOutcome(t).text) => FailedWith(t, "AI_EMPTY_OUTFITS")

-----------------------------------------------------------------------------
(* The schema specification: valid and invalid bodies to the six endpoints *)
(* that declare a schema                                                   *)

SchemaItemBodies ==
    [name : {Absent, <<"n">>}, category : {<<"t">>}, color : {Absent},
     brand : {Absent}, imageUrl : {Absent, <<"x">>}]

SchemaPatches ==
    [name : {Absent, <<>>}, category : {Absent}, color : {Absent},
     brand : {Absent}, imageUrl : {Absent, <<"x">>}]

SchemaDescribeBodies == [imageUrl : {Absent, <<"u">>, <<"x">>}]

SchemaSuggestBodies ==
    [occasion : {Absent, <<"w">>}, itemIds : {<<>>, <<RecId("c", 1)>>},
     topK : {<<>>, <<0>>, <<6>>}]

SchemaSaveBodies ==
    [title : {"", "Saved"}, itemIds : {<<>>, <<RecId("c", 1)>>},
     photoUrl : {Absent, <<"x">>}]

SchemaOrderBodies ==
    [userId : {UserA}, outfitId : {RecId("o", 3)}, fulfillment : {"absent", "express"},
     note : {"absent", "long"}, idempotencyKey : {<<>>, <<"k">>}]

SchemaOutcomes == {AiText(TextOne), AiText(<<Prose>>), AiError(429, "Rate limit reached")}

NextSchema ==
    \E t \in Tasks :
        \/ \E b \in SchemaItemBodies : ClosetCreateBegin(t, "good", UserA, b)
        \/ ClosetCreate(t)
        \/ \E b \in SchemaPatches :
               OwnedBegin(t, "PUT /api/closet/:id", "good", UserA, RecId("c", 1), b)
        \/ ClosetPutFind(t)
        \/ ClosetPutUpdate(t)
        \/ \E b \in SchemaDescribeBodies : DescribeBegin(t, "good", b)
        \/ \E out \in SchemaOutcomes : DescribeAi(t, out)
        \/ \E b \in SchemaSuggestBodies : SuggestBegin(t, "part_002", "good", UserA, b)
        \/ SuggestFetch(t)
        \/ \E out \in SchemaOutcomes : SuggestPrimary(t, out)
        \/ \E out \in SchemaOutcomes : SuggestSecondary(t, out)
        \/ SuggestCreate(t)
        \/ \E b \in SchemaSaveBodies : SaveBegin(t, "good", UserA, Absent, b)
        \/ SaveFetch(t)
        \/ SaveCreate(t)
        \/ \E b \in SchemaOrderBodies : OrdersBegin(t, "good", b)
        \/ OrdersSelect(t)
        \/ OrdersFind(t)
        \/ OrdersCreate(t)

SpecSchema == InitOwner /\ [][NextSchema]_vars

\* the body the request carried violates the schema its endpoint declares
ViolatesSchema(t) ==
    LET b == task[t].body
        rt == task[t].route
    IN  \/ rt = "POST /api/closet" /\ ~CreateClosetItemSchema(b)
        \/ rt = "PUT /api/closet/:id" /\ ~UpdateClosetItemSchema(b)
        \/ rt = "POST /api/closet/describe" /\ ~DescribeSchema(b)
        \/ rt = "POST /api/outfits/suggest" /\ ~OutfitSuggestSchema(b)
        \/ rt = "POST /api/outfits/save" /\ ~SaveOutfitSchema(b)
        \/ rt = "POST /api/orders" /\ ~CreateOrderSchema(b)

\* C5: for every endpoint with a declared schema, a request body that
\* violates the schema is answered 400 with code BAD_REQUEST, and no
\* record-store or AI call is made before that response.
C5_BadBodyIs400 ==
    \A t \in Tasks :
        (requireApiKey(task[t].hdrKey) /\ ViolatesSchema(t)) =>
            /\ Done(t) /\ task[t].status = 400 /\ task[t].code = "BAD_REQUEST"
            /\ task[t].storeCalls = 0 /\ task[t].aiCalls = 0

\* the same of POST /api/outfits/suggest alone, which uses safeParse
C5_SuggestBadBodyIs400 ==
    \A t \in Tasks :
        (requireApiKey(task[t].hdrKey) /\ ViolatesSchema(t)
         /\ task[t].route = "POST /api/outfits/suggest") =>
            /\ Done(t) /\ task[t].status = 400 /\ task[t].code = "BAD_REQUEST"
            /\ task[t].storeCalls = 0 /\ task[t].aiCalls = 0

\* what holds of every endpoint but PUT /api/closet/:id: the request is
\* refused before any store or AI call
C5_BadBodyRefusedBeforeCalls ==
    \A t \in Tasks :
        (requireApiKey(task[t].hdrKey) /\ ViolatesSchema(t)
         /\ task[t].route # "PUT /api/closet/:id") =>
            /\ Done(t) /\ task[t].status \in {400, 500}
            /\ task[t].storeCalls = 0 /\ task[t].aiCalls = 0

-----------------------------------------------------------------------------
(* The liveness probe, and the routes of the app that registers no          *)
(* requireApiKey (server.js, second app)                                    *)

\* app.get('/healthz', ...): 200 { status: 'ok' } whatever the headers
Healthz(t, hk) ==
    /\ task[t].pc = "idle"
    /\ task' = [task EXCEPT ![t] =
           Respond(Arrive(t, "GET /healthz", hk, <<>>, NoBody), 200, "", "",
                   [status |-> "ok"])]
    /\ UNCHANGED <<closet, outfits, orders, nextId, env>>

\* app.get('/api/health', (req, res) => res.json({ ok: true }))
LegacyHealth(t, hk) ==
    /\ task[t].pc = "idle"
    /\ task' = [task EXCEPT ![t] =
           Respond([Arrive(t, "GET /api/health", hk, <<>>, NoBody) EXCEPT !.app = "server.js"],
                   200, "", "", [ok |-> TRUE])]
    /\ UNCHANGED <<closet, outfits, orders, nextId, env>>

\* app.get('/api/closet', async (req, res) => ...): the handler runs for every
\* request and issues fetchCloset(200)
LegacyClosetBegin(t, hk) ==
    /\ task[t].pc = "idle"
    /\ task' = [task EXCEPT ![t] =
           [Arrive(t, "GET /api/closet", hk, <<>>, NoBody) EXCEPT
                !.app = "server.js", !.pc = "legacy_closet"]]
    /\ UNCHANGED <<closet, outfits, orders, nextId, env>>

\* const items = await fetchCloset(200); res.json(items), or 500 in the catch
LegacyCloset(t) ==
    /\ task[t].pc = "legacy_closet"
    /\ \E fail \in BOOLEAN :
       LET r == [task[t] EXCEPT !.storeCalls = @ + 1, !.xfail = @ \/ fail]
       IN  task' = [task EXCEPT ![t] =
               IF fail THEN Respond(r, 500, "", "Failed to fetch closet", NoBody)
               ELSE Respond(r, 200, "", "", [items |-> FirstN(closet, 200)])]
    /\ UNCHANGED <<closet, outfits, orders, nextId, env>>

-----------------------------------------------------------------------------
(* The gate specification: requests with and without the key, to every     *)
(* route modelled above                                                    *)

GateOrder ==
    [userId |-> UserA, outfitId |-> RecId("o", 3), fulfillment |-> "absent",
     note |-> "absent", idempotencyKey |-> <<"k">>]

GateItem ==
    [name |-> <<"n">>, category |-> <<"t">>, color |-> Absent, brand |-> Absent,
     imageUrl |-> Absent]

GatePatch ==
    [name |-> <<"n">>, category |-> Absent, color |-> Absent, brand |-> Absent,
     imageUrl |-> Absent]

GateSuggest == [occasion |-> <<"w">>, itemIds |-> <<RecId("c", 1)>>, topK |-> <<1>>]

GateSave == [title |-> "Saved", itemIds |-> <<RecId("c", 1)>>, photoUrl |-> Absent]

NextGate ==
    \E t \in Tasks :
        \/ \E hk \in KeyHeaders : Healthz(t, hk)
        \/ \E hk \in KeyHeaders : LegacyHealth(t, hk)
        \/ \E hk \in KeyHeaders : LegacyClosetBegin(t, hk)
        \/ LegacyCloset(t)
        \/ \E hk \in KeyHeaders : DescribeBegin(t, hk, [imageUrl |-> <<"u">>])
        \/ DescribeAi(t, AiText(<<LB, MLabel, RB>>))
        \/ \E hk \in KeyHeaders : ClosetListBegin(t, hk, UserA, Absent, Absent)
        \/ ClosetList(t)
        \/ \E hk \in KeyHeaders : ClosetCreateBegin(t, hk, UserA, GateItem)
        \/ ClosetCreate(t)
        \/ \E hk \in KeyHeaders, route \in {"PUT /api/closet/:id", "DELETE /api/closet/:id"} :
               OwnedBegin(t, route, hk, UserA, RecId("c", 1), GatePatch)
        \/ \E hk \in KeyHeaders :
               OwnedBegin(t, "DELETE /api/outfits/:id", hk, UserA, RecId("o", 3), NoBody)
        \/ ClosetPutFind(t)
        \/ ClosetPutUpdate(t)
        \/ ClosetDeleteFind(t)
        \/ ClosetDeleteDestroy(t)
        \/ OutfitDeleteFind(t)
        \/ OutfitDeleteDestroy(t)
        \/ \E hk \in KeyHeaders : SuggestBegin(t, "part_002", hk, UserA, GateSuggest)
        \/ SuggestFetch(t)
        \/ \E out \in {AiText(TextOne), AiText(<<Prose>>)} : SuggestPrimary(t, out)
        \/ SuggestSecondary(t, AiText(TextOne))
        \/ SuggestCreate(t)
        \/ \E hk \in KeyHeaders : SaveBegin(t, hk, UserA, Absent, GateSave)
        \/ SaveFetch(t)
        \/ SaveCreate(t)
        \/ \E hk \in KeyHeaders : ArchiveBegin(t, hk, UserA)
        \/ ArchiveSelect(t)
        \/ ArchiveFetch(t)
        \/ \E hk \in KeyHeaders : OrdersBegin(t, hk, GateOrder)
        \/ OrdersSelect(t)
        \/ OrdersFind(t)
        \/ OrdersCreate(t)

SpecGate == InitOwner /\ [][NextGate]_vars

\* the routes under /api
ApiRoutes ==
    {"GET /api/health", "GET /api/closet", "POST /api/closet/describe", "POST /api/closet",
     "PUT /api/closet/:id", "DELETE /api/closet/:id", "POST /api/outfits/suggest",
     "POST /api/outfits/save", "GET /api/outfits/archive", "DELETE /api/outfits/:id",
     "POST /api/orders"}

\* C4: for every route under /api, a request whose x-api-key header is absent
\* or differs from the configured key is answered 401 UNAUTHORIZED and no
\* record-store or AI call is made on its behalf; GET /healthz answers 200
\* without any key.
C4_NoKeyNoService ==
    \A t \in Tasks :
        /\ (task[t].route \in ApiRoutes /\ task[t].hdrKey # API_KEY) =>
               /\ Done(t) /\ task[t].status = 401 /\ task[t].code = "UNAUTHORIZED"
               /\ task[t].storeCalls = 0 /\ task[t].aiCalls = 0
        /\ task[t].route = "GET /healthz" => Done(t) /\ task[t].status = 200

\* the same, for the routes of the app that registers them with requireApiKey
C4_GatedRoutesRefuse ==
    \A t \in Tasks :
        /\ (task[t].route \in ApiRoutes /\ task[t].app = "part_002"
            /\ task[t].hdrKey # API_KEY) =>
               /\ Done(t) /\ task[t].status = 401 /\ task[t].code = "UNAUTHORIZED"
               /\ task[t].storeCalls = 0 /\ task[t].aiCalls = 0
        /\ task[t].route = "GET /healthz" => Done(t) /\ task[t].status = 200

-----------------------------------------------------------------------------
(* The save specification: concurrent POST /api/outfits/save of users A, B *)
(* and of nobody over two closet items, with ids that exist, that do not,  *)
(* that repeat, and one that carries a backslash                           *)

SaveIds ==
    {<<RecId("c", 1)>>, <<RecId("c", 1), RecId("c", 2)>>, <<RecId("c", 1), RecId("c", 1)>>,
     <<RecId("c", 9)>>, <<RecId("c", 1), RecId("c", 9)>>, <<<<"c", BS>>>>}

SaveBodies == [title : {"Saved"}, itemIds : SaveIds, photoUrl : {Absent}]

InitSave ==
    /\ closet = <<Item(1, <<"s">>, UserA), Item(2, <<"t">>, <<>>)>>
    /\ outfits = <<>>
    /\ orders = <<>>
    /\ nextId = 3
    /\ env = DefaultEnv
    /\ task = [t \in Tasks |-> Idle]

NextSave ==
    \E t \in Tasks :
        \/ \E hk \in {"bad", "good"}, hdr \in UserHeaders, quser \in {Absent, UserB},
              b \in SaveBodies :
               SaveBegin(t, hk, hdr, quser, b)
        \/ SaveFetch(t)
        \/ SaveCreate(t)

SpecSave == InitSave /\ [][NextSave]_vars

\* the request passed requireApiKey and SaveOutfitSchema, and no call of it
\* failed in transport
SaveServed(t) ==
    /\ Done(t) /\ task[t].route = "POST /api/outfits/save"
    /\ task[t].storeCalls >= 1
    /\ ~task[t].xfail

\* every supplied itemId is the id of a closet item
AllResolve(ids) == \A i \in 1..Len(ids) : Has(closet, ids[i])

\* the number of closet items the supplied ids name
FoundCount(ids) == Cardinality({ id \in Range(ids) : Has(closet, id) })

\* the outcome POST /api/outfits/save is to have for request t
SaveOutcomeAsClaimed(t) ==
    LET ids == task[t].body.itemIds IN
    IF AllResolve(ids)
    THEN /\ task[t].status = 201
         /\ task[t].aiCalls = 0
         /\ \E id \in Ids(outfits) :
              /\ task[t].created = {id}
              /\ task[t].data.id = id
              /\ Rec(outfits, id).items = ids
              /\ Rec(outfits, id).owner = task[t].uid
    ELSE /\ task[t].status = 400 /\ task[t].code = "ITEMS_NOT_FOUND"
         /\ task[t].data = [requested |-> Len(ids), found |-> FoundCount(ids)]
         /\ task[t].created = {}
         /\ task[t].aiCalls = 0

\* C11: POST /api/outfits/save responds 201 and persists exactly one Outfit
\* (linked to the supplied itemIds, owned by the requester, with no AI call)
\* if and only if every supplied itemId resolves to an existing ClosetItem;
\* otherwise it responds 400 ITEMS_NOT_FOUND with details {requested, found}
\* and persists nothing.
C11_SaveIffAllResolve ==
    \A t \in Tasks : SaveServed(t) => SaveOutcomeAsClaimed(t)

\* the supplied ids are pairwise different and free of backslashes
PlainDistinct(ids) ==
    /\ \A i, j \in 1..Len(ids) : ids[i] = ids[j] => i = j
    /\ \A i \in 1..Len(ids) : BS \notin Range(ids[i])

\* the same outcome, for the requests whose itemIds are pairwise different
\* and free of backslashes
C11_SaveOfDistinctIds ==
    \A t \in Tasks :
        (SaveServed(t) /\ PlainDistinct(task[t].body.itemIds)) => SaveOutcomeAsClaimed(t)

-----------------------------------------------------------------------------
(* The archive specification: archive listings next to deletes and saves   *)
(* of outfits, by users whose ids are plain or carry a quote or a          *)
(* backslash                                                               *)

UserBackslash == <<BS>>

ArchiveUsers == {Absent, UserA, UserB, UserBackslash, <<BS, BS>>, <<"A", SQ>>}

ArchiveSaveBodies == [title : {"Saved"}, itemIds : {<<RecId("c", 1)>>}, photoUrl : {Absent}]

InitArchive ==
    /\ closet = <<Item(1, <<"s">>, UserA), Item(2, <<"t">>, <<>>)>>
    /\ outfits = <<Look(3, UserA, <<RecId("c", 1)>>), Look(4, <<>>, <<RecId("c", 2)>>),
                   Look(5, UserBackslash, <<>>), Look(6, UserA, <<RecId("c", 2)>>)>>
    /\ orders = <<>>
    /\ nextId = 7
    /\ env = DefaultEnv
    /\ task = [t \in Tasks |-> Idle]

NextArchive ==
    \E t \in Tasks :
        \/ \E hk \in {"bad", "good"}, hdr \in ArchiveUsers : ArchiveBegin(t, hk, hdr)
        \/ ArchiveSelect(t)
        \/ ArchiveFetch(t)
        \/ \E hdr \in ArchiveUsers, id \in {RecId("o", 3), RecId("o", 5), RecId("o", 9)} :
               OwnedBegin(t, "DELETE /api/outfits/:id", "good", hdr, id, NoBody)
        \/ OutfitDeleteFind(t)
        \/ OutfitDeleteDestroy(t)
        \/ \E hdr \in ArchiveUsers, b \in ArchiveSaveBodies : SaveBegin(t, "good", hdr, Absent, b)
        \/ SaveFetch(t)
        \/ SaveCreate(t)

SpecArchive == InitArchive /\ [][NextArchive]_vars

\* the archive request passed requireApiKey and no call of it failed in
\* transport
ArchiveServed(t) ==
    /\ Done(t) /\ task[t].route = "GET /api/outfits/archive"
    /\ task[t].storeCalls >= 1
    /\ ~task[t].xfail

\* the ids of the outfits a listing returned
ArchiveIds(t) ==
    IF task[t].status = 200
    THEN { task[t].data.outfits[k].id : k \in 1..Len(task[t].data.outfits) }
    ELSE {}

\* the owner of an outfit that is, or was until a request destroyed it, in
\* the store
OutfitOwner(id) ==
    IF Has(outfits, id) THEN Rec(outfits, id).owner
    ELSE (CHOOSE w \in UNION { task[t].wrote : t \in Tasks } :
              w.table = "outfits" /\ w.id = id).owner

\* every other request was answered before t was taken up
AfterAll(t) == \A t1 \in Tasks \ {t} : t1 \in task[t].after

\* the outcome GET /api/outfits/archive is to have for request t
ArchiveAsClaimed(t) ==
    /\ task[t].status = 200
    /\ \A id \in ArchiveIds(t) : OutfitOwner(id) = task[t].uid
    /\ AfterAll(t) =>
           ArchiveIds(t) = { id \in Ids(outfits) : Rec(outfits, id).owner = task[t].uid }
    /\ \A t1 \in task[t].after :
           (task[t1].route = "DELETE /api/outfits/:id" /\ task[t1].status = 204)
               => task[t1].loc.id \notin ArchiveIds(t)

\* C12: GET /api/outfits/archive returns exactly the Outfits currently in the
\* store whose ownerUserId equals the requester's id, never another user's
\* outfit; hence an Outfit the requester deleted with DELETE /api/outfits/:id
\* (204) is absent from every subsequent archive listing.
C12_ArchiveIsTheRequesters ==
    \A t \in Tasks : ArchiveServed(t) => ArchiveAsClaimed(t)

\* a user id with neither quote nor backslash
PlainText(s) == SQ \notin Range(s) /\ BS \notin Range(s)

\* the same, for the requesters whose id has neither quote nor backslash
C12_ArchiveOfPlainUser ==
    \A t \in Tasks : (ArchiveServed(t) /\ PlainText(task[t].uid)) => ArchiveAsClaimed(t)

-----------------------------------------------------------------------------
(* The resolution specification: POST /api/outfits/suggest with itemIds    *)
(* that name closet items, that name none, and that carry a quote or a     *)
(* backslash, with and without SKIP_OPENAI                                 *)

ResolveIds ==
    {<<RecId("c", 1)>>, <<RecId("c", 9)>>, <<RecId("c", 9), RecId("c", 8)>>,
     <<RecId("c", 9), RecId("c", 2)>>, <<<<"c", SQ>>>>, <<<<"c", BS>>>>}

ResolveBodies == [occasion : {<<"w">>}, itemIds : ResolveIds, topK : {<<>>}]

ResolveOutcomes == {AiText(TextOne), AiText(<<Prose>>), AiError(429, "Rate limit reached")}

InitResolve ==
    /\ closet = <<Item(1, <<"s">>, UserA), Item(2, <<"t">>, <<>>)>>
    /\ outfits = <<>>
    /\ orders = <<>>
    /\ nextId = 3
    /\ env \in {e \in Envs : e.photoAttachment}
    /\ task = [t \in Tasks |-> Idle]

NextResolve ==
    \E t \in Tasks :
        \/ \E hk \in {"bad", "good"}, hdr \in {Absent, UserA}, b \in ResolveBodies :
               SuggestBegin(t, "part_002", hk, hdr, b)
        \/ SuggestFetch(t)
        \/ \E out \in ResolveOutcomes : SuggestPrimary(t, out)
        \/ \E out \in ResolveOutcomes : SuggestSecondary(t, out)
        \/ SuggestCreate(t)

SpecResolve == InitResolve /\ [][NextResolve]_vars

\* the suggest request passed requireApiKey and OutfitSuggestSchema, none of
\* its itemIds is the id of a closet item, and no call of it failed in
\* transport
ResolvesNone(t) ==
    /\ task[t].route = "POST /api/outfits/suggest"
    /\ requireApiKey(task[t].hdrKey) /\ OutfitSuggestSchema(task[t].body)
    /\ \A i \in 1..Len(task[t].body.itemIds) : ~Has(closet, task[t].body.itemIds[i])
    /\ ~task[t].xfail

NoItemsOutcome(t) ==
    /\ task[t].aiCalls = 0
    /\ task[t].created = {}
    /\ Done(t) => (task[t].status = 400 /\ task[t].code = "NO_ITEMS")

\* C13: a POST /api/outfits/suggest whose itemIds resolve to no existing
\* ClosetItem responds 400 NO_ITEMS, and in that request the AI backend is
\* never called and no Outfit is persisted.
C13_NoItemsIs400 ==
    \A t \in Tasks : ResolvesNone(t) => NoItemsOutcome(t)

\* the same, for itemIds free of backslashes
C13_NoItemsOfPlainIds ==
    \A t \in Tasks :
        (ResolvesNone(t)
         /\ \A i \in 1..Len(task[t].body.itemIds) : BS \notin Range(task[t].body.itemIds[i]))
        => NoItemsOutcome(t)

-----------------------------------------------------------------------------
(* The envelope specification: requests that are refused or fail, on every *)
(* route of the app, with and without an x-request-id header               *)

RequestIds == {Absent, <<"r">>}

EnvelopeOutcomes == {AiText(TextOne), AiText(<<Prose>>), AiError(429, "Rate limit reached")}

InitEnvelope ==
    /\ closet = <<Item(1, <<"s">>, UserA), Item(2, <<"s">>, <<>>)>>
    /\ outfits = <<Look(3, UserA, <<RecId("c", 1)>>), Look(4, <<>>, <<RecId("c", 2)>>)>>
    /\ orders = <<>>
    /\ nextId = 5
    /\ env = DefaultEnv
    /\ \E h \in [Tasks -> RequestIds] :
           task = [t \in Tasks |-> [Idle EXCEPT !.hdrReqId = h[t]]]

NextEnvelope ==
    \E t \in Tasks :
        \/ \E hk \in {"bad", "good"} : Healthz(t, hk)
        \/ \E hk \in {"bad", "good"}, b \in SchemaDescribeBodies : DescribeBegin(t, hk, b)
        \/ \E out \in EnvelopeOutcomes : DescribeAi(t, out)
        \/ \E hk \in {"bad", "good"}, hdr \in {UserA, <<"A", SQ>>} :
               ClosetListBegin(t, hk, hdr, Absent, Absent)
        \/ ClosetList(t)
        \/ \E hk \in {"bad", "good"}, b \in SchemaItemBodies : ClosetCreateBegin(t, hk, UserA, b)
        \/ ClosetCreate(t)
        \/ \E hk \in {"bad", "good"}, hdr \in {UserA, UserB},
              route \in {"PUT /api/closet/:id", "DELETE /api/closet/:id"} :
               OwnedBegin(t, route, hk, hdr, RecId("c", 1), GatePatch)
        \/ \E hk \in {"bad", "good"}, hdr \in {UserA, UserB} :
               OwnedBegin(t, "DELETE /api/outfits/:id", hk, hdr, RecId("o", 3), NoBody)
        \/ ClosetPutFind(t)
        \/ ClosetPutUpdate(t)
        \/ ClosetDeleteFind(t)
        \/ ClosetDeleteDestroy(t)
        \/ OutfitDeleteFind(t)
        \/ OutfitDeleteDestroy(t)
        \/ \E hk \in {"bad", "good"}, b \in SchemaSuggestBodies :
               SuggestBegin(t, "part_002", hk, UserA, b)
        \/ SuggestFetch(t)
        \/ \E out \in EnvelopeOutcomes : SuggestPrimary(t, out)
        \/ \E out \in EnvelopeOutcomes : SuggestSecondary(t, out)
        \/ SuggestCreate(t)
        \/ \E hk \in {"bad", "good"}, b \in SchemaSaveBodies : SaveBegin(t, hk, UserA, Absent, b)
        \/ SaveFetch(t)
        \/ SaveCreate(t)
        \/ \E hk \in {"bad", "good"}, hdr \in {UserA, <<"A", SQ>>} : ArchiveBegin(t, hk, hdr)
        \/ ArchiveSelect(t)
        \/ ArchiveFetch(t)
        \/ \E hk \in {"bad", "good"}, b \in SchemaOrderBodies : OrdersBegin(t, hk, b)
        \/ OrdersSelect(t)
        \/ OrdersFind(t)
        \/ OrdersCreate(t)

SpecEnvelope == InitEnvelope /\ [][NextEnvelope]_vars

\* the request was answered with a status of 400 or more
Failed(t) == Done(t) /\ task[t].status >= 400

\* C14: every response with status >= 400 from any endpoint has a body of the
\* form {error: {code, message, requestId}} (details optional), where
\* requestId is the request's correlation id (the x-request-id header if
\* supplied, a generated id otherwise).
C14_ErrorEnvelopeHasRequestId ==
    \A t \in Tasks :
        Failed(t) =>
            /\ task[t].code # "" /\ task[t].message # ""
            /\ task[t].requestId = genReqId(task[t].hdrReqId)

\* what holds: every such response carries a code and a message, and the
\* ones the error handler sends carry the correlation id as well
C14_ErrorHandlerHasRequestId ==
    \A t \in Tasks :
        Failed(t) =>
            /\ task[t].code # "" /\ task[t].message # ""
            /\ task[t].code = "INTERNAL_ERROR" =>
                   task[t].requestId = genReqId(task[t].hdrReqId)

-----------------------------------------------------------------------------
(* The photo specification: POST /api/closet with and without an imageUrl, *)
(* then GET /api/closet, in both configurations of the Photo field         *)

PhotoBodies ==
    [name : {<<"n">>, <<"S">>}, category : {<<"t">>}, color : {Absent},
     brand : {Absent}, imageUrl : {Absent} \cup Urls]

InitPhoto ==
    /\ closet = <<Item(1, <<"s">>, UserA)>>
    /\ outfits = <<>>
    /\ orders = <<>>
    /\ nextId = 2
    /\ env \in {e \in Envs : ~e.skipOpenAI}
    /\ task = [t \in Tasks |-> Idle]

NextPhoto ==
    \E t \in Tasks :
        \/ \E hk \in {"bad", "good"}, hdr \in UserHeaders, b \in PhotoBodies :
               ClosetCreateBegin(t, hk, hdr, b)
        \/ ClosetCreate(t)
        \/ \E hk \in {"bad", "good"}, hdr \in UserHeaders, q \in {Absent, <<"s">>} :
               ClosetListBegin(t, hk, hdr, Absent, q)
        \/ ClosetList(t)

SpecPhoto == InitPhoto /\ [][NextPhoto]_vars

\* t1 is a POST /api/closet answered 201 whose payload carried an imageUrl
CreatedWithPhoto(t1) ==
    /\ Done(t1) /\ task[t1].route = "POST /api/closet" /\ task[t1].status = 201
    /\ task[t1].body.imageUrl # Absent

\* t2 is a GET /api/closet of the requester of t1, taken up after t1 was
\* answered and answered by the store, whose search text, if any, is part of
\* the name t1 gave
ListedAfter(t2, t1) ==
    /\ Done(t2) /\ task[t2].route = "GET /api/closet" /\ ~task[t2].xfail
    /\ task[t2].storeCalls >= 1
    /\ t1 \in task[t2].after
    /\ task[t2].uid = task[t1].uid
    /\ task[t2].loc.q # Absent =>
           Contains(LowerStr(task[t1].body.name), LowerStr(task[t2].loc.q))

C15_WitnessPlainUrl ==
    \E t1, t2 \in Tasks :
        /\ CreatedWithPhoto(t1) /\ ListedAfter(t2, t1)
        /\ ~env.photoAttachment
        /\ task[t2].status = 200

-----------------------------------------------------------------------------
(* The extraction specification: extractJson applied to a text and to the  *)
(* same text inside code-fence markers                                     *)

ExtractPieces == {LB, RB, MOutfits1, MOther, Prose, FenceJson, Fence, SP}

ExtractTexts == StrUpTo(ExtractPieces, MaxTextLen)

\* the text between the markers, with or without white space next to them
Fenced(s, ws) == <<FenceJson>> \o ws \o s \o ws \o <<Fence>>

InitExtract ==
    /\ closet = <<>>
    /\ outfits = <<>>
    /\ orders = <<>>
    /\ nextId = 1
    /\ env = DefaultEnv
    /\ \E s \in ExtractTexts, ws \in {<<>>, <<SP>>} :
           task = [t \in Tasks |->
                      [Idle EXCEPT !.pc = "extract", !.route = "extractJson",
                                   !.loc = [text |-> IF t = "t1" THEN s ELSE Fenced(s, ws),
                                            plain |-> s]]]

\* extractJson(text) returns
ExtractJson(t) ==
    /\ task[t].pc = "extract"
    /\ task' = [task EXCEPT ![t] =
           [@ EXCEPT !.pc = "done", !.data = extractJson(task[t].loc.text)]]
    /\ UNCHANGED <<closet, outfits, orders, nextId, env>>

NextExtract == \E t \in Tasks : ExtractJson(t)

SpecExtract == InitExtract /\ [][NextExtract]_vars

\* C16: for every text t, extractJson applied to t wrapped in code-fence
\* markers yields the same result as extractJson applied to t itself: fenced
\* AI output is parsed to the same object as the unfenced output with
\* identical content.
C16_FencedParsesAlike ==
    (Done("t1") /\ Done("t2")) => task["t2"].data = task["t1"].data

\* a JSON object with outfits was extracted from the plain and from the
\* fenced text
C16_Witness ==
    /\ Done("t1") /\ Done("t2")
    /\ task["t1"].loc.text = <<LB, MOutfits1, RB>>
    /\ task["t2"].loc.text = <<FenceJson, SP, LB, MOutfits1, RB, SP, Fence>>
    /\ task["t2"].data = [valid |-> TRUE, member |-> MOutfits1]

-----------------------------------------------------------------------------
(* Properties of GET /api/closet?q=...                                       *)

\* the ids of the items a listing returned
ListedIds(t) == { task[t].data[i].id : i \in 1..Len(task[t].data) }

\* the request was answered with a list and carried a search text of letters
Searched(t) ==
    /\ Listed(t)
    /\ task[t].loc.q \notin {Absent, <<>>}
    /\ Range(task[t].loc.q) \subseteq {"s", "S"}

NameMatches(rec, q) == Contains(LowerStr(rec.name), LowerStr(q))

\* C17 as stated: GET /api/closet?q=shirt returns the items whose name
\* contains "shirt" case-insensitively and, in addition, all unowned (shared)
\* items regardless of their name.
C17_SearchPlusUnowned ==
    \A t \in Tasks :
        Searched(t) =>
            ListedIds(t) = { id \in Ids(closet) :
                                \/ NameMatches(Rec(closet, id), task[t].loc.q)
                                \/ Rec(closet, id).owner = <<>> }

\* C17, corrected: GET /api/closet?q=shirt by a requester who names a user id
\* returns exactly the items whose name contains "shirt" case-insensitively
\* AND that are unowned or owned by the requester; an unowned item whose name
\* does not contain the text is not returned.
C17_SearchWithinVisible ==
    \A t \in Tasks :
        (Searched(t) /\ task[t].uid # <<>>) =>
            ListedIds(t) = { id \in Ids(closet) :
                                /\ NameMatches(Rec(closet, id), task[t].loc.q)
                                /\ Rec(closet, id).owner \in {<<>>, task[t].uid} }

\* user A searched for "S": the item of A named "Ss" was returned, the item of
\* B named "s" and the unowned item named "t" were not
C17_Witness ==
    \E t \in Tasks :
        /\ Searched(t) /\ task[t].uid = UserA /\ task[t].loc.q = <<"S">>
        /\ ListedIds(t) = {RecId("c", 1)}
        /\ Rec(closet, RecId("c", 3)).owner = <<>>
        /\ Rec(closet, RecId("c", 2)).owner = UserB

-----------------------------------------------------------------------------
(* The description specification: POST /api/closet/describe over every     *)
(* text of the completion call up to MaxTextLen pieces, and its failures   *)

DescribePieces == {LB, RB, MLabel, Prose, FenceJson, Fence, SP}

DescribeOutcomes ==
    {AiText(s) : s \in StrUpTo(DescribePieces, MaxTextLen)}
    \cup {AiText(<<FenceJson, SP, LB, MLabel, RB, SP, Fence>>),
          AiError(429, "Rate limit reached")}

InitDescribe ==
    /\ closet = <<>>
    /\ outfits = <<>>
    /\ orders = <<>>
    /\ nextId = 1
    /\ env \in {e \in Envs : e.photoAttachment}
    /\ task = [t \in Tasks |-> Idle]

\* describeImage keeps nothing between requests: one request at a time
NextDescribe ==
    \E t \in {"t1"} :
        \/ \E hk \in {"bad", "good"}, b \in SchemaDescribeBodies : DescribeBegin(t, hk, b)
        \/ \E out \in DescribeOutcomes : DescribeAi(t, out)

SpecDescribe == InitDescribe /\ [][NextDescribe]_vars

\* the completion call of request t returned a text that is not valid JSON
\* once its code-fence markers are removed
DescribedMalformed(t) ==
    /\ task[t].route = "POST /api/closet/describe" /\ task[t].aiCalls = 1
    /\ task[t].loc.out.kind = "text"
    /\ ~JsonParse(StripFences(task[t].loc.out.text)).valid

\* C18: describeImage never raises on malformed AI output: for every AI
\* response text that is not valid JSON after code-fence markers are stripped
\* it returns {name:'', category:'', color:'', brand:''}, and POST
\* /api/closet/describe responds 200 with that object.
C18_MalformedGivesBlankLabel ==
    \A t \in Tasks :
        DescribedMalformed(t) =>
            /\ Done(t) /\ task[t].status = 200
            /\ task[t].data = BlankLabel

\* what holds: such a request is answered 200, with the blank label or, for
\* a text that is empty or white space, with the empty object
C18_MalformedNeverRaises ==
    \A t \in Tasks :
        DescribedMalformed(t) =>
            /\ Done(t) /\ task[t].status = 200
            /\ task[t].data = IF Trim(task[t].loc.out.text) = <<>>
                              THEN [valid |-> TRUE, member |-> ""]
                              ELSE BlankLabel

-----------------------------------------------------------------------------
(* Properties of the fallback of generateOutfitsWithAI                     *)

\* generateOutfitsWithAI was entered in request t
Generating(t) == task[t].route = "POST /api/outfits/suggest" /\ task[t].aiCalls >= 1

\* the secondary completion call was issued in request t
SecondaryCalled(t) ==
    Generating(t) /\ (task[t].pc = "suggest_ai2" \/ task[t].loc.out2.kind # "none")

\* the primary call was rejected with status 403 or a 'not authorized' message
PrimaryUnauthorized(t) ==
    /\ task[t].loc.out1.kind = "error"
    /\ task[t].loc.out1.status = 403 \/ task[t].loc.out1.message \in NotAuthorizedMessages

\* C19: in generateOutfitsWithAI the secondary completion API is called at
\* most once per request and only after the primary call failed for an
\* authorization/unsupported-feature reason (status 403 or a 'not authorized'
\* message); any other primary failure is surfaced without calling the
\* secondary API, and the secondary is never called after a primary success.
C19_FallbackOnlyWhenUnauthorized ==
    \A t \in Tasks :
        /\ Generating(t) => task[t].aiCalls <= 2
        /\ SecondaryCalled(t) => PrimaryUnauthorized(t)
        /\ (Generating(t) /\ ~Attempt(task[t].loc.out1).ok /\ ~PrimaryUnauthorized(t)) =>
               /\ Done(t) /\ task[t].aiCalls = 1
               /\ task[t].message = WrapAiError(Attempt(task[t].loc.out1).err).message

\* what holds of both builds: at most one secondary call, made only after the
\* primary attempt failed; and of the build of part_000: only after status 403
\* or a 'not authorized' message
C19_FallbackOnlyAfterFailure ==
    \A t \in Tasks :
        /\ Generating(t) => task[t].aiCalls <= 2
        /\ SecondaryCalled(t) => ~Attempt(task[t].loc.out1).ok
        /\ (SecondaryCalled(t) /\ task[t].app = "part_000") => PrimaryUnauthorized(t)
        /\ (/\ Generating(t) /\ task[t].app = "part_000"
            /\ ~Attempt(task[t].loc.out1).ok /\ ~PrimaryUnauthorized(t)) =>
               /\ Done(t) /\ task[t].aiCalls = 1
               /\ task[t].message = WrapAiError(Attempt(task[t].loc.out1).err).message

\* both completion calls of request t were made and both attempts failed
BothFailed(t) ==
    /\ Generating(t) /\ task[t].aiCalls = 2 /\ task[t].pc # "suggest_ai2"
    /\ ~Attempt(task[t].loc.out1).ok
    /\ ~Attempt(task[t].loc.out2).ok

\* C20: when both the primary and the secondary completion calls fail, the
\* error surfaced to the caller wraps the original (primary) failure, has
\* status 502 unless the backend supplied one, and carries as details at most
\* the first 400 characters of the raw AI text.
C20_WrapsPrimaryFailure ==
    \A t \in Tasks :
        BothFailed(t) =>
            /\ Done(t)
            /\ task[t].message = WrapAiError(Attempt(task[t].loc.out1).err).message
            /\ task[t].status = WrapAiError(Attempt(task[t].loc.out1).err).status

\* what holds: the error surfaced wraps the failure of the secondary call,
\* with its status, 502 when it has none
C20_WrapsSecondaryFailure ==
    \A t \in Tasks :
        BothFailed(t) =>
            /\ Done(t)
            /\ task[t].message = WrapAiError(Attempt(task[t].loc.out2).err).message
            /\ task[t].status = WrapAiError(Attempt(task[t].loc.out2).err).status
            /\ task[t].created = {}

-----------------------------------------------------------------------------
(* The bypass specification: concurrent suggest and describe requests with *)
(* SKIP_OPENAI either way                                                   *)

StubLabel == [valid |-> TRUE, member |-> "\"name\":\"Basic item\""]

BypassDescribeOutcomes ==
    {AiText(<<LB, MLabel, RB>>), AiText(<<Prose>>), AiText(<<>>),
     AiError(429, "Rate limit reached")}

BypassBodies ==
    [occasion : {<<"w">>},
     itemIds : {<<RecId("c", 1)>>, <<RecId("c", 1), RecId("c", 2)>>},
     topK : {<<1>>, <<2>>}]

InitBypass ==
    /\ closet = <<Item(1, <<"s">>, UserA), Item(2, <<"t">>, UserA)>>
    /\ outfits = <<>>
    /\ orders = <<>>
    /\ nextId = 3
    /\ env \in Envs
    /\ task = [t \in Tasks |-> Idle]

NextBypass ==
    \E t \in Tasks :
        \/ \E b \in BypassBodies : SuggestBegin(t, "part_002", "good", UserA, b)
        \/ SuggestFetch(t)
        \/ \E out \in SuggestOutcomes : SuggestPrimary(t, out)
        \/ \E out \in SuggestOutcomes : SuggestSecondary(t, out)
        \/ SuggestCreate(t)
        \/ \E b \in SchemaDescribeBodies : DescribeBegin(t, "good", b)
        \/ \E out \in BypassDescribeOutcomes : DescribeAi(t, out)

SpecBypass == InitBypass /\ [][NextBypass]_vars

IsDescribe(t) == task[t].route = "POST /api/closet/describe"

\* request t holds, returned or persisted the synthesized outfit, or returned
\* the synthesized label
StubOutput(t) ==
    \/ /\ IsSuggest(t) /\ task[t].loc # NoBody
       /\ \/ \E i \in 1..Len(task[t].loc.outfits) : task[t].loc.outfits[i].name = "stub"
          \/ \E id \in task[t].created : Rec(outfits, id).title = "stub"
    \/ IsDescribe(t) /\ Done(t) /\ task[t].status = 200 /\ task[t].data = StubLabel

\* the last completion call request t made was rejected, or (suggest) gave
\* output that cannot be used
AiFailure(t) ==
    \/ AiFailed(t)
    \/ IsDescribe(t) /\ task[t].aiCalls >= 1 /\ task[t].loc.out.kind = "error"

\* C21: a stub (synthesized) outfit is returned or persisted only when the
\* SKIP_OPENAI flag is true, in which case no AI backend call is made; with
\* the flag false every AI failure ends in an error response and never in
\* stub output or a persisted Outfit.
C21_StubOnlyWhenFlagged ==
    \A t \in Tasks :
        /\ StubOutput(t) => env.skipOpenAI
        /\ env.skipOpenAI => task[t].aiCalls = 0
        /\ (~env.skipOpenAI /\ AiFailure(t)) =>
               /\ Done(t) /\ task[t].status >= 400
               /\ task[t].created = {}
               /\ ~StubOutput(t)

\* with the flag true a suggest request persisted the synthesized outfit and
\* a describe request returned the synthesized label, without an AI call
C21_WitnessBypass ==
    /\ env.skipOpenAI
    /\ \E t \in Tasks : IsSuggest(t) /\ Done(t) /\ task[t].status = 201 /\ StubOutput(t)
    /\ \E t \in Tasks : IsDescribe(t) /\ StubOutput(t)

\* with the flag false the secondary call of a suggest request failed after
\* another request had persisted an outfit of the AI
C21_Witness ==
    /\ ~env.skipOpenAI
    /\ \E t \in Tasks : AiFailed(t) /\ task[t].aiCalls = 2 /\ Done(t)
    /\ \E t \in Tasks : IsSuggest(t) /\ Done(t) /\ task[t].status = 201

-----------------------------------------------------------------------------
(* The formula specification: every filter formula the handlers build,     *)
(* over every supplied value of up to MaxValueLen characters               *)

MaxValueLen == 2

FormulaChars == {"a", "B", SQ, DQ, BS}

FormulaValues == StrUpTo(FormulaChars, MaxValueLen)

\* the places where a supplied value is put into a formula
FormulaSites == {"itemId", "q", "userId", "archiveUserId", "idempotencyKey"}

\* the formula built at a site from the supplied value v
FormulaAt(site, v) ==
    IF site = "itemId" THEN IdsFormula(<<v>>)
    ELSE IF site = "q" THEN NameFilter(v)
    ELSE IF site = "userId" THEN ScopeFilter(v)
    ELSE IF site = "archiveUserId" THEN ArchiveFormula(v)
    ELSE OrderKeyFormula(v)

\* what the store is meant to read: the formula with one literal in the place
\* of the value
SkelAt(site) ==
    IF site = "itemId" THEN IdsSkel(1)
    ELSE IF site = "q" THEN NameSkel
    ELSE IF site = "userId" THEN ScopeSkel
    ELSE IF site = "archiveUserId" THEN ArchiveSkel
    ELSE OrderKeyTemplate

InitFormula ==
    /\ closet = <<>>
    /\ outfits = <<>>
    /\ orders = <<>>
    /\ nextId = 1
    /\ env = DefaultEnv
    /\ \E s1 \in FormulaSites, s2 \in FormulaSites, v \in FormulaValues :
           task = [t \in Tasks |->
                      [Idle EXCEPT !.pc = "formula", !.route = IF t = "t1" THEN s1 ELSE s2,
                                   !.loc = [value |-> v]]]

\* the formula is built and the store reads it
BuildFormula(t) ==
    /\ task[t].pc = "formula"
    /\ task' = [task EXCEPT ![t] =
           [@ EXCEPT !.pc = "done",
                     !.data = Lex(FormulaAt(task[t].route, task[t].loc.value))]]
    /\ UNCHANGED <<closet, outfits, orders, nextId, env>>

NextFormula == \E t \in Tasks : BuildFormula(t)

SpecFormula == InitFormula /\ [][NextFormula]_vars

\* the store read the formula of task t with the supplied value as its one
\* literal (for q: the value in lower case)
StructureKept(t) ==
    /\ task[t].data.ok
    /\ task[t].data.skel = SkelAt(task[t].route)
    /\ task[t].data.lits =
          <<IF task[t].route = "q" THEN LowerStr(task[t].loc.value) ELSE task[t].loc.value>>

\* C22: every request-supplied string interpolated into a record-store filter
\* formula (closet item ids, search text q, requester user id, idempotency
\* key) is escaped first, so that no supplied value can terminate its
\* enclosing string literal and change the structure of the formula.
C22_ValuesStayInsideLiterals ==
    \A t \in Tasks : Done(t) => StructureKept(t)

\* the characters outside which esc keeps a value inside its literal at a site
Unsafe(site) ==
    IF site = "q" THEN {DQ, BS}
    ELSE IF site = "archiveUserId" THEN {SQ, BS}
    ELSE {BS}

\* what holds: a value without backslashes stays inside its literal where esc
\* is applied to a literal in single quotes; the search text must also be free
\* of double quotes and the user id of the archive of single quotes
C22_SafeValuesStayInsideLiterals ==
    \A t \in Tasks :
        (Done(t) /\ Range(task[t].loc.value) \cap Unsafe(task[t].route) = {}) =>
            StructureKept(t)

-----------------------------------------------------------------------------
(* The batching specification: fetchClosetItemsByIds over lists of up to    *)
(* MaxIds ids, two calls in flight                                          *)

MaxIds == 21

\* a list of n ids over c1, c2 (in the closet) and c3 (not in it)
IdList(n, k) == [i \in 1..n |-> RecId("c", ((i + k) % 3) + 1)]

InitBatch ==
    /\ closet = <<Item(1, <<"s">>, UserA), Item(2, <<"t">>, <<>>)>>
    /\ outfits = <<>>
    /\ orders = <<>>
    /\ nextId = 3
    /\ env = DefaultEnv
    /\ \E n1 \in 0..MaxIds, n2 \in 0..MaxIds, k \in 0..2 :
           task = [t \in Tasks |->
                      [Idle EXCEPT !.pc = "fetch_call", !.route = "fetchClosetItemsByIds",
                                   !.body = [ids |-> IdList(IF t = "t1" THEN n1 ELSE n2, k)]]]

\* fetchClosetItemsByIds(ids) is entered: return [] of an empty list, else
\* the first select is issued. queried keeps the batches the selects named.
FetchCall(t) ==
    /\ task[t].pc = "fetch_call"
    /\ task' = [task EXCEPT ![t] =
           IF task[t].body.ids = <<>>
           THEN [@ EXCEPT !.pc = "done", !.data = <<>>, !.loc = [queried |-> <<>>]]
           ELSE [@ EXCEPT !.pc = "fetch",
                          !.loc = [ids |-> task[t].body.ids, at |-> 1, items |-> <<>>,
                                   queried |-> <<>>]]]
    /\ UNCHANGED <<closet, outfits, orders, nextId, env>>

\* the awaited select of a batch completes: the function throws, goes on to
\* the next batch, or returns out
FetchStep(t) ==
    /\ task[t].pc = "fetch"
    /\ \E fail \in BOOLEAN :
       LET ft == FetchTurn(task[t], fail)
           r == [ft.r EXCEPT !.loc.queried =
                     Append(@, Batch(task[t].loc.ids, task[t].loc.at))]
       IN  task' = [task EXCEPT ![t] =
               IF ~ft.ok THEN [r EXCEPT !.pc = "done", !.code = "threw"]
               ELSE IF FetchOver(r) THEN [r EXCEPT !.pc = "done", !.data = r.loc.items]
               ELSE r]
    /\ UNCHANGED <<closet, outfits, orders, nextId, env>>

NextBatch == \E t \in Tasks : FetchCall(t) \/ FetchStep(t)

SpecBatch == InitBatch /\ [][NextBatch]_vars

\* the call of task t returned a list
Fetched(t) == task[t].route = "fetchClosetItemsByIds" /\ Done(t) /\ task[t].code = ""

\* the records of the closet the ids of a batch name, in the closet's order
BatchResult(batch) == SelectSeq(closet, LAMBDA rec : rec.id \in Range(batch))

\* C23: fetchClosetItemsByIds on a list of n ids issues ceil(n/10) store
\* queries (none when n = 0), each naming at most 10 ids; the batches
\* partition the input list in order so every id is queried exactly once; and
\* the result is the concatenation of the batch results.
C23_BatchesPartitionTheIds ==
    \A t \in Tasks :
        Fetched(t) =>
            LET ids == task[t].body.ids
                q == task[t].loc.queried
            IN  /\ task[t].storeCalls = (Len(ids) + 9) \div 10
                /\ Len(q) = task[t].storeCalls
                /\ \A i \in 1..Len(q) : Len(q[i]) \in 1..10
                /\ Flatten(q) = ids
                /\ task[t].data = Flatten([i \in 1..Len(q) |-> BatchResult(q[i])])

\* a list of 21 ids was fetched in three queries and a list of none in none
C23_Witness ==
    /\ Fetched("t1") /\ Len(task["t1"].body.ids) = 21 /\ task["t1"].storeCalls = 3
    /\ Len(task["t1"].data) = 5
    /\ Fetched("t2") /\ task["t2"].body.ids = <<>> /\ task["t2"].storeCalls = 0

-----------------------------------------------------------------------------
(* The reference specification: POST /api/orders concurrent with DELETE    *)
(* /api/outfits/:id over a store that holds one outfit                     *)

RefBodies ==
    [userId : {UserA, UserB}, outfitId : {RecId("o", 1), RecId("o", 9)},
     fulfillment : {"absent"}, note : {"absent"}, idempotencyKey : {<<"k">>, <<"m">>}]

NextRefs ==
    \E t \in Tasks :
        \/ \E b \in RefBodies : OrdersBegin(t, "good", b)
        \/ OrdersSelect(t)
        \/ OrdersFind(t)
        \/ OrdersCreate(t)
        \/ \E hdr \in {UserA, UserB}, id \in {RecId("o", 1), RecId("o", 9)} :
               OwnedBegin(t, "DELETE /api/outfits/:id", "good", hdr, id, NoBody)
        \/ OutfitDeleteFind(t)
        \/ OutfitDeleteDestroy(t)

SpecRefs == InitOrders /\ [][NextRefs]_vars

\* C24: in every reachable state every Order record's outfitId references an
\* Outfit that exists in the store, including after DELETE /api/outfits/:id
\* and under interleaving of an order creation with an outfit deletion.
C24_OrdersReferenceOutfits ==
    \A i \in 1..Len(orders) : Has(outfits, orders[i].outfit)

\* what holds: the outfit of every order was in the store when the creating
\* request looked it up
C24_OutfitExistedAtLookup ==
    \A t \in Tasks :
        (IsOrders(t) /\ task[t].created # {}) =>
            /\ task[t].loc.outfitExists
            /\ \A id \in task[t].created :
                   Has(orders, id) /\ Rec(orders, id).outfit = task[t].body.outfitId

-----------------------------------------------------------------------------
(* The serving specification: two concurrent requests to any route,        *)
(* where every awaited call of the store and of the AI backend settles and *)
(* the event loop runs its continuation                                    *)

InitServe ==
    /\ closet = <<Item(1, <<"s">>, UserA), Item(2, <<"s">>, <<>>)>>
    /\ outfits = <<Look(3, UserA, <<RecId("c", 1)>>)>>
    /\ orders = <<>>
    /\ nextId = 5
    /\ env = DefaultEnv
    /\ task = [t \in Tasks |-> Idle]

NextServe ==
    \E t \in Tasks :
        \/ \E b \in {[imageUrl |-> <<"u">>], [imageUrl |-> <<"x">>]} : DescribeBegin(t, "good", b)
        \/ \E out \in EnvelopeOutcomes : DescribeAi(t, out)
        \/ \E hk \in {"bad", "good"} : ClosetListBegin(t, hk, UserA, Absent, Absent)
        \/ ClosetList(t)
        \/ \E hdr \in {UserA, UserB} :
               OwnedBegin(t, "DELETE /api/outfits/:id", "good", hdr, RecId("o", 3), NoBody)
        \/ OutfitDeleteFind(t)
        \/ OutfitDeleteDestroy(t)
        \/ SuggestBegin(t, "part_002", "good", UserA, GateSuggest)
        \/ SuggestFetch(t)
        \/ \E out \in EnvelopeOutcomes : SuggestPrimary(t, out)
        \/ \E out \in EnvelopeOutcomes : SuggestSecondary(t, out)
        \/ SuggestCreate(t)
        \/ OrdersBegin(t, "good", GateOrder)
        \/ OrdersSelect(t)
        \/ OrdersFind(t)
        \/ OrdersCreate(t)

SpecServe == InitServe /\ [][NextServe]_vars /\ WF_vars(NextServe)

\* a call of the store or of the AI backend failed inside the handler of
\* request t
CallFailed(t) ==
    \/ task[t].xfail
    \/ AiFailed(t)
    \/ IsDescribe(t) /\ task[t].aiCalls >= 1 /\ task[t].loc.out.kind = "error"

\* request t has exactly the responses its progress allows: none while its
\* handler runs, one once it ended, an error envelope after a failed call
AnsweredOnce(t) ==
    /\ task[t].responses = IF Done(t) THEN 1 ELSE 0
    /\ (Done(t) /\ CallFailed(t)) =>
           /\ task[t].status >= 400
           /\ task[t].code # "" /\ task[t].message # ""

\* C25: every request that reaches a route handler ends with exactly one
\* response: any record-store or AI failure raised inside a handler is
\* converted into a single error-envelope response, and the process keeps
\* serving later requests; only an uncaught exception outside request
\* handling terminates the process.
C25_EveryRequestIsAnsweredOnce ==
    /\ [](\A t \in Tasks : AnsweredOnce(t))
    /\ \A t \in Tasks : (task[t].pc # "idle") ~> Done(t)

\* a request whose store call failed was answered with an error, and a
\* request taken up after that answer was served
C25_Witness ==
    \E t1, t2 \in Tasks :
        /\ Done(t1) /\ task[t1].xfail /\ task[t1].status = 500 /\ task[t1].responses = 1
        /\ Done(t2) /\ t1 \in task[t2].after /\ task[t2].status \in {200, 201}
        /\ task[t2].storeCalls >= 1

-----------------------------------------------------------------------------
(* Properties of the persistence loop of POST /api/outfits/suggest          *)

\* the handler of request t ended after it had outfits to persist
Persisting(t) ==
    /\ task[t].route = "POST /api/outfits/suggest" /\ Done(t)
    /\ task[t].loc # NoBody /\ task[t].loc.outfits # <<>>

\* the creates of request t that failed: the loop ends at the first
FailedCreates(t) == IF task[t].status = 201 THEN 0 ELSE 1

\* C26: in POST /api/outfits/suggest the persistence of each returned outfit
\* is independent of the others: if persisting one outfit fails, the
\* remaining returned outfits are still persisted (either all outfits are
\* persisted or each failure affects only its own outfit).
C26_FailureAffectsOnlyItsOutfit ==
    \A t \in Tasks :
        Persisting(t) =>
            Cardinality(task[t].created) = Len(task[t].loc.outfits) - FailedCreates(t)

\* what holds: the outfits before the failing one stay persisted, the failing
\* one and all after it are not, and the request is answered 500; without a
\* failure all are persisted
C26_FailureEndsTheLoop ==
    \A t \in Tasks :
        Persisting(t) =>
            /\ task[t].created = { task[t].loc.made[i].id : i \in 1..Len(task[t].loc.made) }
            /\ task[t].created \subseteq Ids(outfits)
            /\ Cardinality(task[t].created) = Len(task[t].loc.made)
            /\ IF task[t].status = 201
               THEN Len(task[t].loc.made) = Len(task[t].loc.outfits)
               ELSE /\ task[t].status = 500
                    /\ Len(task[t].loc.made) < Len(task[t].loc.outfits)

-----------------------------------------------------------------------------
(* Properties of the idempotency lookup of POST /api/orders                *)

\* request t was answered with an Order
GotOrder(t) == OrderServed(t) /\ task[t].status \in {200, 201}

\* C27: the Order returned by POST /api/orders always has a User Id equal to
\* the request's userId: a request that reuses an idempotencyKey first used
\* by a different userId does not receive that other user's Order.
C27_OrderIsTheRequesters ==
    \A t \in Tasks : GotOrder(t) => task[t].data.userId = task[t].body.userId

\* what holds: the Order returned carries the request's idempotencyKey; a
\* created Order (201) carries the request's userId, a replayed one (200) the
\* userId of the request that created it
C27_OrderIsTheKeys ==
    \A t \in Tasks :
        GotOrder(t) =>
            /\ task[t].data.key = task[t].body.idempotencyKey
            /\ task[t].status = 201 => task[t].data.userId = task[t].body.userId
            /\ task[t].status = 200 =>
                   \E t1 \in Tasks \ {t} :
                       /\ task[t1].created = {task[t].data.id}
                       /\ task[t].data.userId = task[t1].body.userId


\* request t was answered 404 OUTFIT_NOT_FOUND
OutfitNotFound(t) ==
    IsOrders(t) /\ Done(t) /\ task[t].status = 404 /\ task[t].code = "OUTFIT_NOT_FOUND"

\* C28: POST /api/orders answers 404 OUTFIT_NOT_FOUND only when the
\* referenced Outfit does not exist in the store; a record-store failure
\* other than not-found during the outfit lookup is not reported as
\* OUTFIT_NOT_FOUND.
C28_NotFoundOnlyWhenMissing ==
    \A t \in Tasks : OutfitNotFound(t) => ~task[t].loc.outfitExists

\* what holds: the answer is given after the outfit lookup, when the Outfit
\* is missing or the lookup failed for any reason, and no Order is created
C28_NotFoundAfterAnyLookupFailure ==
    \A t \in Tasks :
        OutfitNotFound(t) =>
            /\ task[t].storeCalls = 2
            /\ ~task[t].loc.outfitExists \/ task[t].xfail
            /\ task[t].created = {}

-----------------------------------------------------------------------------
(* Properties of requests without x-user-id                                *)

\* request t updated or destroyed a record
WroteRecord(t) == task[t].route \in OwnedRoutes /\ task[t].wrote # {}

\* C29: a request that carries no x-user-id (empty requester id) cannot
\* update or delete any ClosetItem or Outfit, including unowned (blank-owner)
\* ones: PUT /api/closet/:id, DELETE /api/closet/:id and DELETE
\* /api/outfits/:id succeed only when the requester id is non-empty and
\* equals the record's owner.
C29_NoUserIdNoWrite ==
    \A t \in Tasks :
        WroteRecord(t) =>
            /\ task[t].uid # <<>>
            /\ \A w \in task[t].wrote : w.owner = task[t].uid

\* what holds: the records a request without x-user-id updates or destroys
\* are the unowned ones, and an owned record is written by its owner only
C29_NoUserIdWritesUnownedOnly ==
    \A t \in Tasks :
        WroteRecord(t) =>
            \A w \in task[t].wrote :
                IF task[t].uid = <<>> THEN w.owner = <<>>
                ELSE w.owner = task[t].uid /\ w.owner # <<>>

-----------------------------------------------------------------------------
(* Properties of the items an outfit of POST /api/outfits/suggest links    *)

\* the closet items the request's itemIds resolve to
Resolved(t) == Range(task[t].body.itemIds) \cap Ids(closet)

\* C30: every Outfit persisted by POST /api/outfits/suggest links exactly the
\* set of ClosetItems resolved from the request's itemIds (a non-empty set),
\* independent of the items list the AI returned for that outfit.
C30_OutfitLinksResolvedItems ==
    \A t \in Tasks :
        task[t].route = "POST /api/outfits/suggest" =>
            \A id \in task[t].created :
                /\ Has(outfits, id)
                /\ Range(Rec(outfits, id).items) = Resolved(t)
                /\ Resolved(t) # {}

\* two outfits of the AI, which names item c9 for each, were persisted
\* linking the two resolved items c1 and c2
C30_Witness ==
    \E t \in Tasks :
        /\ IsSuggest(t) /\ Done(t) /\ task[t].status = 201
        /\ ~env.skipOpenAI
        /\ Cardinality(task[t].created) = 2
        /\ \A i \in 1..Len(task[t].loc.outfits) : task[t].loc.outfits[i].items = <<RecId("c", 9)>>
        /\ Resolved(t) = {RecId("c", 1), RecId("c", 2)}

=============================================================================
